---- MODULE Spec2Model ----
(***************************************************************************)
(* Model of qwen_reverse_fastapi.py: the bridge between an OpenAI-style    *)
(* chat API and the upstream Qwen chat service.                            *)
(*                                                                         *)
(* Modelled here: the local session store (ChatHistoryManager), the        *)
(* continuity matcher (QwenClient.find_matching_session), and the stream   *)
(* translator of QwenClient.chat_completions in its streaming              *)
(* (generate()) and non-streaming form.  The translator of                 *)
(* QwenClient.multimodal_chat_completions (lines 1383-1580) is a line for  *)
(* line copy of the text one and is covered by the same definitions.       *)
(*                                                                         *)
(* Texts are sequences of tokens.  A token is one character, except that   *)
(* the literal tags "<tool_use>" and "</tool_use>" are one token each.     *)
(*                                                                         *)
(* One exchange runs at a time.  Every upstream line of an exchange is     *)
(* fed to the translator of the exchange's mode, which alone produces the  *)
(* client-visible output and the session-store update; the translator of   *)
(* the other mode is run on the same lines as a twin, so that the two      *)
(* modes can be compared on identical upstream event sequences.            *)
(***************************************************************************)
EXTENDS Integers, Sequences, FiniteSets, TLC

\* ------------------------------------------------------------------ bounds
MaxLines == 3
MaxRequests == 2
\* longest text, in tokens, given to the normalizer on its own
MaxTextLen == 3
\* largest reasoning budget a request or the user settings carry
MaxBudget == 2
\* largest upload, in MiB
MaxSize == 11

\* ------------------------------------------------------------------- texts
OpenTag == "<tool_use>"
CloseTag == "</tool_use>"

Whitespace == {" "}
\* the characters * _ ~ and the backquote (written "bq")
Markers == {"*", "_", "bq", "~"}
Emoji == {"E"}

RECURSIVE FirstIndex(_, _, _)
\* smallest index >= i of s holding token t, 0 when there is none
FirstIndex(s, t, i) ==
    IF i > Len(s) THEN 0
    ELSE IF s[i] = t THEN i
    ELSE FirstIndex(s, t, i + 1)

RECURSIVE remove_tool(_)
\* re.sub(r'<tool_use>.*?</tool_use>', '', text, flags=re.DOTALL):
\* leftmost opening tag up to the nearest closing tag, repeated
remove_tool(text) ==
    LET i == FirstIndex(text, OpenTag, 1)
        j == IF i = 0 THEN 0 ELSE FirstIndex(text, CloseTag, i + 1)
    IN  IF i = 0 \/ j = 0 THEN text
        ELSE SubSeq(text, 1, i - 1) \o remove_tool(SubSeq(text, j + 1, Len(text)))

RECURSIVE Unescape(_)
\* html.unescape restricted to the entity "&amp;", written as the two
\* tokens "&" "amp;": one left-to-right pass, no rescan of the output
Unescape(s) ==
    IF s = <<>> THEN <<>>
    ELSE IF Len(s) >= 2 /\ s[1] = "&" /\ s[2] = "amp;"
         THEN <<"&">> \o Unescape(SubSeq(s, 3, Len(s)))
    ELSE <<s[1]>> \o Unescape(Tail(s))

RECURSIVE Strip(_)
\* str.strip(): drop leading and trailing whitespace
Strip(s) ==
    IF s = <<>> THEN <<>>
    ELSE IF s[1] \in Whitespace THEN Strip(Tail(s))
    ELSE IF s[Len(s)] \in Whitespace THEN Strip(SubSeq(s, 1, Len(s) - 1))
    ELSE s

RECURSIVE Collapse(_)
\* re.sub(r'\s+', ' ', s): every run of whitespace becomes one space
Collapse(s) ==
    IF s = <<>> THEN <<>>
    ELSE IF s[1] \in Whitespace
         THEN IF Len(s) >= 2 /\ s[2] \in Whitespace
              THEN Collapse(Tail(s))
              ELSE <<" ">> \o Collapse(Tail(s))
    ELSE <<s[1]>> \o Collapse(Tail(s))

RECURSIVE Without(_, _)
\* re.sub(r'[...]', '', s): drop every token of the set
Without(s, set) ==
    IF s = <<>> THEN <<>>
    ELSE IF s[1] \in set THEN Without(Tail(s), set)
    ELSE <<s[1]>> \o Without(Tail(s), set)

\* ChatHistoryManager.normalize_text
normalize_text(text) ==
    IF text = <<>> THEN <<>>
    ELSE Without(Without(Collapse(Strip(Unescape(text))), Markers), Emoji)

\* ----------------------------------------------------------- session store
\* chat_sessions rows in rowid order; chat_id is the primary key
RECURSIVE DeleteRows(_, _)
DeleteRows(rows, chat_id) ==
    IF rows = <<>> THEN <<>>
    ELSE IF rows[1].chat_id = chat_id THEN DeleteRows(Tail(rows), chat_id)
    ELSE <<rows[1]>> \o DeleteRows(Tail(rows), chat_id)

\* variant: the text is normalized before it is stored
update_session_Normalized(rows, chat_id, current_response_id, last_assistant_content) ==
    Append(DeleteRows(rows, chat_id),
           [chat_id |-> chat_id,
            chat_type |-> "t2t",
            current_response_id |-> current_response_id,
            last_assistant_content |->
                normalize_text(remove_tool(last_assistant_content))])

\* ChatHistoryManager.update_session: INSERT OR REPLACE by chat_id
update_session(rows, chat_id, current_response_id, last_assistant_content) ==
    Append(DeleteRows(rows, chat_id),
           [chat_id |-> chat_id,
            chat_type |-> "t2t",
            current_response_id |-> current_response_id,
            last_assistant_content |-> remove_tool(last_assistant_content)])

NoSession == [chat_id |-> 0, current_response_id |-> "none"]

RECURSIVE get_session_by_last_content_Raw(_, _)
\* variant: the stored text is compared without normalizing the request text
get_session_by_last_content_Raw(rows, content) ==
    IF rows = <<>> THEN NoSession
    ELSE IF content = normalize_text(rows[1].last_assistant_content)
         THEN [chat_id |-> rows[1].chat_id,
               current_response_id |-> rows[1].current_response_id]
    ELSE get_session_by_last_content_Raw(Tail(rows), content)

\* variant: the first stored row is returned without comparing texts
get_session_by_last_content_AnyRow(rows, content) ==
    IF rows = <<>> THEN NoSession
    ELSE [chat_id |-> rows[1].chat_id,
          current_response_id |-> rows[1].current_response_id]

RECURSIVE get_session_by_last_content(_, _)
\* ChatHistoryManager.get_session_by_last_content: first row, in fetch
\* order, whose normalized text equals the normalized content
get_session_by_last_content(rows, content) ==
    IF rows = <<>> THEN NoSession
    ELSE IF normalize_text(content) = normalize_text(rows[1].last_assistant_content)
         THEN [chat_id |-> rows[1].chat_id,
               current_response_id |-> rows[1].current_response_id]
    ELSE get_session_by_last_content(Tail(rows), content)

\* variant: the content is looked up even when the history has no assistant
\* turn
find_matching_session_NoRoleCheck(rows, messages) ==
    get_session_by_last_content(rows, messages.assistant)

\* QwenClient.find_matching_session; a request's history is represented by
\* its most recent assistant turn
find_matching_session(rows, messages) ==
    IF ~messages.hasAssistant THEN NoSession
    ELSE IF messages.assistant = <<>> THEN NoSession
    ELSE get_session_by_last_content(rows, messages.assistant)

\* ----------------------------------------------------------- upstream lines
\* One line of the upstream response body.
\*   k      "nondata" (no "data: " prefix), "bad" (not JSON), "ev" (JSON)
\*   rc     the "response.created" key: "absent", "null" (no response_id
\*          inside), or the announced response id
\*   ch     "choices" present and non-empty
\*   phase  delta.phase: "think", "answer", "none" (absent), "other"
\*   status delta.status: "typing", "finished"
\*   fr     delta.finish_reason: "absent" or a value
\*   usage  0 when the event has no "usage" key, else the usage it carries
Ev(rc, ch, phase, status, content, fr, usage) ==
    [k |-> "ev", rc |-> rc, ch |-> ch, phase |-> phase, status |-> status,
     content |-> content, fr |-> fr, usage |-> usage]

Other(k) == [k |-> k, rc |-> "absent", ch |-> FALSE, phase |-> "none",
             status |-> "typing", content |-> <<>>, fr |-> "absent", usage |-> 0]

ToolBlock == <<OpenTag, "x", CloseTag>>

Lines ==
    { Other("nondata"), Other("bad") }
    \cup { Ev(r, FALSE, "none", "typing", <<>>, "absent", 0) : r \in {"null", "r1", "r2"} }
    \cup { Ev("absent", TRUE, "think", "typing", c, "absent", 0) : c \in {<<"a">>, <<"*">>} }
    \cup { Ev("absent", TRUE, "think", "finished", <<"a">>, "absent", 0) }
    \cup { Ev("absent", TRUE, "answer", "typing", c, "absent", 0) : c \in {<<"a">>, ToolBlock} }
    \cup { Ev("absent", TRUE, "answer", "finished", <<>>, "length", 0) }
    \cup { Ev("absent", TRUE, "answer", "finished", <<"a">>, "absent", 1) }
    \cup { Ev("absent", TRUE, "none", "typing", <<"*">>, "absent", 0) }
    \cup { Ev("absent", TRUE, "other", "typing", <<"a">>, "absent", 0) }
    \cup { Ev("absent", FALSE, "none", "typing", <<>>, "absent", 2) }

\* ------------------------------------------------------------------- state
VARIABLES
    store,          \* rows of chat_sessions
    nextChat,       \* number of upstream threads created by create_chat
    nReq,           \* requests received
    req,            \* the request of the current exchange
    pc,             \* position of the current exchange
    chat_id,        \* thread of the exchange
    parent_id,      \* parent turn id sent upstream
    created,        \* the exchange created its thread
    upstream_open,  \* the upstream response is open
    lineNo,         \* upstream lines consumed so far, over all exchanges
    st,             \* locals of generate() (streaming translator)
    ns,             \* locals of the non-streaming translator
    out,            \* chunks yielded by generate(), in order
    atYield,        \* generate() is suspended at a yield
    resp,           \* the non-streaming response
    store0,         \* the store when the exchange began
    arrived,        \* history: what the upstream events announced
    user_ok,        \* the client holds user_info and models_info
    fault,          \* history: the failure met by the exchange, if any
    probe,          \* operation under study and its result (text and store checks)
    up              \* the upload in progress, if any

vars == <<store, nextChat, nReq, req, pc, chat_id, parent_id, created,
          upstream_open, lineNo, st, ns, out, atYield, resp, store0, arrived,
          user_ok, fault, probe, up>>

NoReq == [hasAssistant |-> FALSE, assistant |-> <<>>, stream |-> FALSE]

StInit == [bound |-> FALSE, finish_reason |-> "stop", reasoning_text |-> <<>>,
           assistant_content |-> <<>>, current_response_id |-> "none"]

NsInit == [response_text |-> <<>>, reasoning_text |-> <<>>, finish_reason |-> "stop",
           usage_data |-> 0, current_response_id |-> "none"]

NoResp == [present |-> FALSE, content |-> <<>>, hasReasoning |-> FALSE,
           reasoning_content |-> <<>>, finish_reason |-> "none", usage |-> 0]

ArrivedInit == [answer |-> <<>>, answerPhase |-> <<>>, think |-> <<>>,
                finish |-> "stop", rid |-> "none", usage |-> 0]

\* The database file outlives the process: at start the table is empty or
\* holds a row written by an earlier run.
InitialStores ==
    { <<>>,
      << [chat_id |-> 1, chat_type |-> "t2t", current_response_id |-> "r1",
          last_assistant_content |-> <<"a">>] >> }

NoProbe == [op |-> "none"]

NoUpload == [pc |-> "none"]

\* no exchange has begun
ExchangeIdle ==
    /\ nReq = 0
    /\ req = NoReq
    /\ pc = "idle"
    /\ chat_id = 0
    /\ parent_id = "none"
    /\ created = FALSE
    /\ upstream_open = FALSE
    /\ lineNo = 0
    /\ st = StInit
    /\ ns = NsInit
    /\ out = <<>>
    /\ atYield = FALSE
    /\ resp = NoResp
    /\ arrived = ArrivedInit
    /\ fault = "none"

\* QwenClient.__init__: _initialize leaves user_info and models_info empty
\* when the token is missing or rejected
Init ==
    /\ store \in InitialStores
    /\ nextChat = Len(store)
    /\ store0 = store
    /\ user_ok \in BOOLEAN
    /\ probe = NoProbe
    /\ up = NoUpload
    /\ ExchangeIdle

\* ------------------------------------------------------- stream translator
Chunk(content, finish_reason) ==
    [kind |-> "chunk", hasContent |-> TRUE, content |-> content,
     hasReasoning |-> FALSE, reasoning_content |-> <<>>,
     finish_reason |-> finish_reason]

\* variant: the accumulated reasoning text is never attached
AnswerChunk_NoReasoning(content, reasoning_text) ==
    [kind |-> "chunk", hasContent |-> TRUE, content |-> content,
     hasReasoning |-> FALSE, reasoning_content |-> <<>>,
     finish_reason |-> "none"]

\* generate(), lines 991-1005: the chunk of one answer delta; the reasoning
\* text accumulated so far rides on it when there is any
AnswerChunk(content, reasoning_text) ==
    [kind |-> "chunk", hasContent |-> TRUE, content |-> content,
     hasReasoning |-> (reasoning_text # <<>>),
     reasoning_content |-> reasoning_text,
     finish_reason |-> "none"]

\* generate(), lines 946-956: the final chunk, delta {}
FinalChunk(finish_reason) ==
    [kind |-> "chunk", hasContent |-> FALSE, content |-> <<>>,
     hasReasoning |-> FALSE, reasoning_content |-> <<>>,
     finish_reason |-> finish_reason]

\* generate(), line 958: "data: [DONE]\n\n"
DoneMarker ==
    [kind |-> "done", hasContent |-> FALSE, content |-> <<>>,
     hasReasoning |-> FALSE, reasoning_content |-> <<>>,
     finish_reason |-> "none"]

ErrorText == <<"Error during streaming">>

\* generate(), lines 1018-1028
ErrorChunk == Chunk(ErrorText, "error")

\* data["response.created"].get("response_id")
ResponseId(line, old) ==
    IF line.rc = "absent" THEN old
    ELSE IF line.rc = "null" THEN "none"
    ELSE line.rc

\* variant: a completion signal always yields the default
FinishReason_AlwaysStop(line, old) ==
    IF line.status = "finished" THEN "stop" ELSE old

\* delta.get("finish_reason", "stop") when status == "finished"
FinishReason(line, old) ==
    IF line.status = "finished"
    THEN (IF line.fr = "absent" THEN "stop" ELSE line.fr)
    ELSE old

\* variant: the compatibility path (no phase) is not treated as an answer
IsAnswerBranch_PhaseOnly(line) ==
    line.phase = "answer"

\* answer branch of generate(): phase == "answer" or (phase is None and content)
IsAnswerBranch(line) ==
    line.phase = "answer" \/ (line.phase = "none" /\ line.content # <<>>)

\* generate(), lines 942-1014 for a line other than the sentinel: the new
\* locals and the chunks yielded while processing the line
StreamStep(s, line) ==
    IF line.k # "ev" THEN [st |-> s, chunks |-> <<>>]
    ELSE
    LET s1 == [s EXCEPT !.current_response_id = ResponseId(line, @)]
    IN  IF ~line.ch THEN [st |-> s1, chunks |-> <<>>]
        ELSE IF line.phase = "think"
        THEN [st |-> [s1 EXCEPT
                        !.reasoning_text =
                            IF line.status # "finished" THEN @ \o line.content ELSE @,
                        !.finish_reason = FinishReason(line, @)],
              chunks |-> <<>>]
        ELSE IF IsAnswerBranch(line)
        THEN [st |-> [s1 EXCEPT
                        !.assistant_content = @ \o line.content,
                        !.reasoning_text = <<>>,
                        !.finish_reason = FinishReason(line, @)],
              chunks |-> << AnswerChunk(line.content, s.reasoning_text) >>]
        ELSE [st |-> [s1 EXCEPT !.finish_reason = FinishReason(line, @)],
              chunks |-> <<>>]

\* chat_completions, lines 1063-1105 for a line other than the sentinel
NonStreamStep(n, line) ==
    IF line.k # "ev" THEN n
    ELSE
    LET n1 == [n EXCEPT !.current_response_id = ResponseId(line, @)]
    IN  IF ~line.ch THEN n1
        ELSE [n1 EXCEPT
                !.reasoning_text =
                    IF line.phase = "think" /\ line.status # "finished"
                    THEN @ \o line.content ELSE @,
                !.response_text =
                    IF line.phase = "answer" /\ line.status # "finished"
                    THEN @ \o line.content ELSE @,
                !.usage_data = IF line.usage # 0 THEN line.usage ELSE @,
                !.finish_reason = FinishReason(line, @)]

\* chat_completions, lines 1125-1145
BuildResponse(n) ==
    [present |-> TRUE, content |-> n.response_text,
     hasReasoning |-> (n.reasoning_text # <<>>),
     reasoning_content |-> n.reasoning_text,
     finish_reason |-> n.finish_reason, usage |-> n.usage_data]

\* variant: the guard tests the turn id only
PersistAfterChat_NoTextGuard(rows, cid, rid, text) ==
    IF rid # "none"
    THEN update_session(rows, cid, rid, text)
    ELSE rows

\* variant: the guard tests the answer text only
PersistAfterChat_NoTurnGuard(rows, cid, rid, text) ==
    IF text # <<>>
    THEN update_session(rows, cid, rid, text)
    ELSE rows

\* update_session_after_chat behind its guard
\* "if assistant_content and current_response_id" (lines 1032, 1108)
PersistAfterChat(rows, cid, rid, text) ==
    IF text # <<>> /\ rid # "none"
    THEN update_session(rows, cid, rid, text)
    ELSE rows

\* ------------------------------------------------- what the events announce
\* The history variable "arrived" records, for the events consumed so far
\* and independently of the translators, what the upstream protocol says
\* they carry (phase-tagged deltas, completion signal, turn id, usage).
IsEvent(line) == line.k = "ev"
HasDelta(line) == IsEvent(line) /\ line.ch
\* an answer delta: phase answer, or no phase and a non-empty delta
AnswerDelta(line) ==
    HasDelta(line) /\ (line.phase = "answer" \/ (line.phase = "none" /\ line.content # <<>>))
\* a delta tagged with the answer phase
AnswerPhaseDelta(line) == HasDelta(line) /\ line.phase = "answer"
\* a think delta: phase think, not the completion signal of the phase
ThinkDelta(line) == HasDelta(line) /\ line.phase = "think" /\ line.status # "finished"
\* a completion signal
Finished(line) == HasDelta(line) /\ line.status = "finished"

Announce(a, line) ==
    [answer |-> IF AnswerDelta(line) THEN a.answer \o line.content ELSE a.answer,
     answerPhase |-> IF AnswerPhaseDelta(line) THEN a.answerPhase \o line.content
                     ELSE a.answerPhase,
     think |-> IF ThinkDelta(line) THEN a.think \o line.content ELSE a.think,
     finish |-> IF Finished(line)
                THEN (IF line.fr = "absent" THEN "stop" ELSE line.fr)
                ELSE a.finish,
     rid |-> IF IsEvent(line) /\ line.rc # "absent"
             THEN (IF line.rc = "null" THEN "none" ELSE line.rc)
             ELSE a.rid,
     usage |-> IF IsEvent(line) /\ line.usage # 0 THEN line.usage ELSE a.usage]

\* ---------------------------------------------------------------- requests
RECURSIVE StoredTexts(_)
StoredTexts(rows) ==
    IF rows = <<>> THEN {}
    ELSE {rows[1].last_assistant_content} \cup StoredTexts(Tail(rows))

\* most recent assistant turns a client may resend: none, a few fixed
\* texts, or a text the store holds
ReqTexts == { <<"*", "a">> }

Requests(rows) ==
    { [hasAssistant |-> FALSE, assistant |-> <<>>, stream |-> s] : s \in BOOLEAN }
    \cup { [hasAssistant |-> TRUE, assistant |-> t, stream |-> s] :
              t \in ReqTexts \cup StoredTexts(rows), s \in BOOLEAN }

Terminal == {"idle", "done", "closed", "error", "cancelled", "failed", "crashed",
             "unauthorized"}

\* state of a fresh exchange
Fresh(m) ==
    /\ nReq' = nReq + 1
    /\ req' = m
    /\ upstream_open' = FALSE
    /\ st' = StInit
    /\ ns' = NsInit
    /\ out' = <<>>
    /\ atYield' = FALSE
    /\ resp' = NoResp
    /\ store0' = store
    /\ arrived' = ArrivedInit
    /\ UNCHANGED <<store, lineNo, user_ok, probe, up>>

\* a fresh exchange that met no failure on its way in
Begin(m) ==
    /\ Fresh(m)
    /\ fault' = "none"

\* chat_completions, lines 805-824 (multimodal_chat_completions, 1235-1247):
\* user_info or models_info is empty, HTTP 401 authentication_error is raised
\* before the history is looked at
RequestUnauthorized(m) ==
    /\ pc \in Terminal
    /\ nReq < MaxRequests
    /\ ~user_ok
    /\ Begin(m)
    /\ chat_id' = 0
    /\ parent_id' = "none"
    /\ created' = FALSE
    /\ pc' = "unauthorized"
    /\ UNCHANGED nextChat

\* chat_completions, lines 841-859: the history matches a stored session
RequestContinue(m) ==
    /\ pc \in Terminal
    /\ nReq < MaxRequests
    /\ user_ok
    /\ find_matching_session(store, m) # NoSession
    /\ Begin(m)
    /\ chat_id' = find_matching_session(store, m).chat_id
    /\ parent_id' = find_matching_session(store, m).current_response_id
    /\ created' = FALSE
    /\ pc' = "ready"
    /\ UNCHANGED nextChat

\* variant: the thread is created without the check of lines 805-824
RequestNew_NoAuthCheck(m) ==
    /\ pc \in Terminal
    /\ nReq < MaxRequests
    /\ find_matching_session(store, m) = NoSession
    /\ Begin(m)
    /\ nextChat' = nextChat + 1
    /\ chat_id' = nextChat + 1
    /\ parent_id' = "none"
    /\ created' = TRUE
    /\ pc' = "ready"

\* chat_completions, lines 861-871: no match, create_chat succeeds
RequestNew(m) ==
    /\ pc \in Terminal
    /\ nReq < MaxRequests
    /\ user_ok
    /\ find_matching_session(store, m) = NoSession
    /\ Begin(m)
    /\ nextChat' = nextChat + 1
    /\ chat_id' = nextChat + 1
    /\ parent_id' = "none"
    /\ created' = TRUE
    /\ pc' = "ready"

\* create_chat raises (lines 719-721): the request ends as a server error
RequestCreateFails(m) ==
    /\ pc \in Terminal
    /\ nReq < MaxRequests
    /\ user_ok
    /\ find_matching_session(store, m) = NoSession
    /\ Fresh(m)
    /\ fault' = "create_chat"
    /\ chat_id' = 0
    /\ parent_id' = "none"
    /\ created' = FALSE
    /\ pc' = "failed"
    /\ UNCHANGED nextChat

\* ------------------------------------------------------------- the exchange
\* session.post returns and raise_for_status passes (lines 932-938, 1059-1060)
PostOk ==
    /\ pc = "ready"
    /\ pc' = "streaming"
    /\ upstream_open' = TRUE
    /\ st' = [st EXCEPT !.bound = TRUE]
    /\ UNCHANGED <<store, nextChat, nReq, req, chat_id, parent_id, created,
                   lineNo, ns, out, atYield, resp, store0, arrived,
                   user_ok, fault, probe, up>>

\* session.post or raise_for_status raises.  Streaming: the error chunk is
\* yielded, then the finally block reads assistant_content, which was never
\* assigned (UnboundLocalError).  Non-streaming: HTTP 500 server_error.
PostFails ==
    /\ pc = "ready"
    /\ pc' = IF req.stream THEN "crashed" ELSE "failed"
    /\ out' = IF req.stream THEN <<ErrorChunk>> ELSE out
    /\ atYield' = FALSE
    /\ UNCHANGED <<store, nextChat, nReq, req, chat_id, parent_id, created,
                   upstream_open, lineNo, st, ns, resp, store0, arrived,
                   user_ok, fault, probe, up>>

\* one more line of the body, other than the sentinel
UpstreamLine(line) ==
    /\ pc = "streaming"
    /\ lineNo < MaxLines
    /\ lineNo' = lineNo + 1
    /\ st' = StreamStep(st, line).st
    /\ out' = out \o StreamStep(st, line).chunks
    /\ atYield' = (req.stream /\ StreamStep(st, line).chunks # <<>>)
    /\ ns' = NonStreamStep(ns, line)
    /\ arrived' = Announce(arrived, line)
    /\ UNCHANGED <<store, nextChat, nReq, req, pc, chat_id, parent_id, created,
                   upstream_open, resp, store0,
                   user_ok, fault, probe, up>>

\* the line "data: [DONE]": lines 944-959 then the finally block (streaming),
\* lines 1065-1066 then 1107-1145 (non-streaming)
Sentinel ==
    /\ pc = "streaming"
    /\ pc' = "done"
    /\ upstream_open' = FALSE
    /\ out' = out \o <<FinalChunk(st.finish_reason), DoneMarker>>
    /\ resp' = BuildResponse(ns)
    /\ atYield' = FALSE
    /\ store' = IF req.stream
                THEN PersistAfterChat(store, chat_id, st.current_response_id,
                                      st.assistant_content)
                ELSE PersistAfterChat(store, chat_id, ns.current_response_id,
                                      ns.response_text)
    /\ UNCHANGED <<nextChat, nReq, req, chat_id, parent_id, created, lineNo,
                   st, ns, store0, arrived,
                   user_ok, fault, probe, up>>

\* the body ends without a sentinel: the for loop falls through
UpstreamCloses ==
    /\ pc = "streaming"
    /\ pc' = "closed"
    /\ upstream_open' = FALSE
    /\ resp' = BuildResponse(ns)
    /\ atYield' = FALSE
    /\ store' = IF req.stream
                THEN PersistAfterChat(store, chat_id, st.current_response_id,
                                      st.assistant_content)
                ELSE PersistAfterChat(store, chat_id, ns.current_response_id,
                                      ns.response_text)
    /\ UNCHANGED <<nextChat, nReq, req, chat_id, parent_id, created, lineNo,
                   st, ns, out, store0, arrived,
                   user_ok, fault, probe, up>>

\* variant: the error chunk is sent but the finally block is missing
TransportError_NoPersist ==
    /\ pc = "streaming"
    /\ pc' = "error"
    /\ upstream_open' = FALSE
    /\ out' = out \o <<ErrorChunk>>
    /\ atYield' = FALSE
    /\ UNCHANGED <<store, nextChat, nReq, req, chat_id, parent_id, created, lineNo,
                   st, ns, resp, store0, arrived,
                   user_ok, fault, probe, up>>

\* iter_lines raises a RequestException.  Streaming: lines 1015-1046.
\* Non-streaming: lines 1149-1162, HTTP 500 and no session update.
TransportError ==
    /\ pc = "streaming"
    /\ pc' = "error"
    /\ upstream_open' = FALSE
    /\ out' = out \o <<ErrorChunk>>
    /\ atYield' = FALSE
    /\ store' = IF req.stream
                THEN PersistAfterChat(store, chat_id, st.current_response_id,
                                      st.assistant_content)
                ELSE store
    /\ UNCHANGED <<nextChat, nReq, req, chat_id, parent_id, created, lineNo,
                   st, ns, resp, store0, arrived,
                   user_ok, fault, probe, up>>

\* variant: closing the generator skips the session update
ClientDisconnects_NoFinally ==
    /\ pc = "streaming"
    /\ req.stream
    /\ atYield
    /\ pc' = "cancelled"
    /\ upstream_open' = FALSE
    /\ atYield' = FALSE
    /\ UNCHANGED <<store, nextChat, nReq, req, chat_id, parent_id, created, lineNo,
                   st, ns, out, resp, store0, arrived,
                   user_ok, fault, probe, up>>

\* the client goes away while generate() is suspended at the yield of an
\* answer chunk: GeneratorExit leaves the with block and runs the finally
ClientDisconnects ==
    /\ pc = "streaming"
    /\ req.stream
    /\ atYield
    /\ pc' = "cancelled"
    /\ upstream_open' = FALSE
    /\ atYield' = FALSE
    /\ store' = PersistAfterChat(store, chat_id, st.current_response_id,
                                 st.assistant_content)
    /\ UNCHANGED <<nextChat, nReq, req, chat_id, parent_id, created, lineNo,
                   st, ns, out, resp, store0, arrived,
                   user_ok, fault, probe, up>>

Next ==
    \/ \E m \in Requests(store) : RequestUnauthorized(m)
    \/ \E m \in Requests(store) : RequestContinue(m)
    \/ \E m \in Requests(store) : RequestNew(m)
    \/ \E m \in Requests(store) : RequestCreateFails(m)
    \/ PostOk
    \/ PostFails
    \/ \E line \in Lines : UpstreamLine(line)
    \/ Sentinel
    \/ UpstreamCloses
    \/ TransportError
    \/ ClientDisconnects

Spec == Init /\ [][Next]_vars

TypeOK ==
    /\ pc \in Terminal \cup {"ready", "streaming"}
    /\ nextChat \in 0..(MaxRequests + 1)
    /\ lineNo \in 0..MaxLines
    /\ Len(store) <= nextChat

\* ============================================================== properties
RECURSIVE ContentOf(_)
\* concatenation of the content deltas of a chunk sequence
ContentOf(chunks) ==
    IF chunks = <<>> THEN <<>>
    ELSE (IF chunks[1].hasContent THEN chunks[1].content ELSE <<>>)
         \o ContentOf(Tail(chunks))

RECURSIVE ReasoningOf(_)
\* concatenation of the reasoning_content fields of a chunk sequence
ReasoningOf(chunks) ==
    IF chunks = <<>> THEN <<>>
    ELSE (IF chunks[1].hasReasoning THEN chunks[1].reasoning_content ELSE <<>>)
         \o ReasoningOf(Tail(chunks))

IsErrorChunk(c) == c.finish_reason = "error"
NotErrorChunk(c) == ~IsErrorChunk(c)

\* the store holds a row for the thread with this turn id and this text
HasRecord(rows, cid, rid, text) ==
    \E i \in 1..Len(rows) :
        /\ rows[i].chat_id = cid
        /\ rows[i].current_response_id = rid
        /\ rows[i].last_assistant_content = text

NotThisChat(r) == r.chat_id # chat_id

\* the store an exchange leaves behind when it persists what arrived: the
\* rows of the other threads as they were, and one row for this thread
StoreAfterPersist ==
    IF arrived.answer # <<>> /\ arrived.rid # "none"
    THEN Append(SelectSeq(store0, NotThisChat),
                [chat_id |-> chat_id, chat_type |-> "t2t",
                 current_response_id |-> arrived.rid,
                 last_assistant_content |-> remove_tool(arrived.answer)])
    ELSE store0

\* ---------------------------------------------------------------------- C1
\* C1 as stated: in streaming mode the content deltas of all emitted chunks,
\* concatenated in emission order, are exactly the answer deltas that
\* arrived, in arrival order.
C1_Original ==
    req.stream => ContentOf(out) = arrived.answer

\* C1 (amended): in streaming mode the content deltas of the emitted chunks
\* other than the transport-error chunk, concatenated in emission order, are
\* exactly the answer deltas that arrived, in arrival order.
C1_AnswerTextPreserved ==
    req.stream => ContentOf(SelectSeq(out, NotErrorChunk)) = arrived.answer

C1_Witness ==
    /\ req.stream
    /\ pc = "done"
    /\ arrived.answer = <<"a", "*">>
    /\ Len(out) = 4

\* ---------------------------------------------------------------------- C2
\* C2 as stated (its conclusion): at the end of a stream every accumulated
\* think delta has been delivered exactly once in some reasoning_content.
C2_Original ==
    (req.stream /\ pc = "done") => ReasoningOf(out) = arrived.think

\* one step inside one streaming exchange
C2_Step ==
    (req'.stream /\ nReq' = nReq) =>
        \* a think event emits no chunk
        /\ (arrived'.think # arrived.think => out' = out)
        \* an answer chunk carries the reasoning text accumulated since the
        \* last flush, when there is any, and nothing stays pending
        /\ (lineNo' = lineNo + 1 /\ out' # out) =>
              /\ Len(out') = Len(out) + 1
              /\ SubSeq(out', 1, Len(out)) = out
              /\ out'[Len(out')].hasReasoning = (ReasoningOf(out) # arrived.think)
              /\ ReasoningOf(out') = arrived.think
              /\ arrived'.think = arrived.think
        \* what was delivered is never more than what was accumulated
        /\ Len(ReasoningOf(out')) <= Len(arrived'.think)
        /\ ReasoningOf(out') = SubSeq(arrived'.think, 1, Len(ReasoningOf(out')))

\* C2 (amended): think events emit no chunk; the reasoning text accumulated
\* since the last flush is attached to the first following answer chunk and
\* to no other chunk, so every think delta accumulated before an answer
\* chunk is delivered exactly once (reasoning accumulated after the last
\* answer chunk is not delivered).
C2_ReasoningFlushedOnce == [][C2_Step]_vars

C2_Witness ==
    /\ req.stream
    /\ Len(out) = 1
    /\ out[1].hasReasoning
    /\ out[1].reasoning_content = <<"a", "*">>
    /\ out[1].content = <<"a">>

\* ---------------------------------------------------------------------- C3
\* C3: in streaming mode the sentinel makes the translator emit exactly one
\* empty-delta chunk whose finish_reason is the one of the most recent
\* completion signal ("stop" when there was none), then the end marker, and
\* nothing after it; before the sentinel no final chunk and no end marker is
\* emitted, whatever completion signals arrived.
C3_FinalChunkOnSentinel ==
    req.stream =>
        /\ pc = "done" =>
              /\ Len(out) >= 2
              /\ out[Len(out)] = DoneMarker
              /\ out[Len(out) - 1].kind = "chunk"
              /\ ~out[Len(out) - 1].hasContent
              /\ ~out[Len(out) - 1].hasReasoning
              /\ out[Len(out) - 1].finish_reason = arrived.finish
              /\ \A i \in 1..(Len(out) - 2) :
                    out[i].kind = "chunk" /\ out[i].hasContent
        /\ pc = "streaming" =>
              \A i \in 1..Len(out) : out[i].kind = "chunk" /\ out[i].hasContent

C3_Witness ==
    /\ req.stream
    /\ pc = "done"
    /\ arrived.finish = "length"
    /\ Len(out) = 4

\* ---------------------------------------------------------------------- C4
\* C4: the chunk stream of a streaming request ends with the end marker,
\* whether the exchange ended by the sentinel, by the upstream closing the
\* body without one, or by a transport error.
C4_EndsWithDoneMarker ==
    (req.stream /\ pc \in {"done", "closed", "error"}) =>
        (Len(out) >= 1 /\ out[Len(out)] = DoneMarker)

\* ---------------------------------------------------------------------- C5
\* the answer buffer of the exchange's mode
AnswerBuffer == IF req.stream THEN st.assistant_content ELSE ns.response_text

\* C5: when an exchange for which a turn id was announced ends (DONE or
\* ERROR) with a non-empty answer buffer, the store holds a record for the
\* exchange's thread with that turn id and the answer text (as
\* update_session writes it).
C5_PersistedOnDoneOrError ==
    (pc \in {"done", "error"} /\ AnswerBuffer # <<>> /\ arrived.rid # "none") =>
        HasRecord(store, chat_id, arrived.rid, remove_tool(AnswerBuffer))

\* ---------------------------------------------------------------------- C6
\* C6 as stated: a request whose most recent assistant turn is the text T
\* persisted for thread X is sent upstream on thread X with the stored turn
\* id as parent, and no thread is created.
C6_Original ==
    (pc = "ready" /\ req.hasAssistant) =>
        \A i \in 1..Len(store0) :
            store0[i].last_assistant_content = req.assistant =>
                /\ chat_id = store0[i].chat_id
                /\ parent_id = store0[i].current_response_id
                /\ ~created

Matches(row) == normalize_text(row.last_assistant_content) = normalize_text(req.assistant)

\* C6 (amended): a request whose most recent assistant turn is non-empty and
\* has the same normalized text as the text persisted for thread X, while no
\* other stored record has that normalized text, is sent upstream on thread
\* X with the stored turn id as parent, and no thread is created.
C6_UniqueMatchContinues ==
    (pc = "ready" /\ req.hasAssistant /\ req.assistant # <<>>) =>
        \A i \in 1..Len(store0) :
            (/\ Matches(store0[i])
             /\ \A j \in 1..Len(store0) : Matches(store0[j]) => j = i) =>
                /\ chat_id = store0[i].chat_id
                /\ parent_id = store0[i].current_response_id
                /\ ~created

C6_Witness ==
    /\ pc = "ready"
    /\ nReq = 2
    /\ req.hasAssistant
    /\ req.assistant = <<"*", "a">>
    /\ ~created
    /\ Len(store0) = 1
    /\ parent_id = "r2"

\* ---------------------------------------------------------------------- C7
ErrorChunks(chunks) == SelectSeq(chunks, IsErrorChunk)

\* C7 as stated: after a transport failure in mid-stream exactly one error
\* chunk was emitted and the answer text accumulated before the failure is
\* in the store.
C7_Original ==
    (req.stream /\ pc = "error") =>
        /\ ErrorChunks(out) = <<ErrorChunk>>
        /\ arrived.answer # <<>> =>
              \E i \in 1..Len(store) :
                  /\ store[i].chat_id = chat_id
                  /\ store[i].last_assistant_content = remove_tool(arrived.answer)

\* C7 (amended): after a transport failure in mid-stream exactly one error
\* chunk (content: the error text, finish_reason "error") was emitted, as the
\* last chunk, and the answer text accumulated before the failure is in the
\* store provided a response-created event announced a turn id before the
\* failure; without a turn id or without answer text the store is unchanged.
C7_ErrorChunkAndPersist ==
    (req.stream /\ pc = "error") =>
        /\ ErrorChunks(out) = <<ErrorChunk>>
        /\ out[Len(out)] = ErrorChunk
        /\ store = StoreAfterPersist

C7_Witness ==
    /\ req.stream
    /\ pc = "error"
    /\ Len(out) = 2
    /\ HasRecord(store, chat_id, arrived.rid, <<"a">>)
    /\ store # store0

\* ---------------------------------------------------------------------- C8
\* C8: when the client disconnects in mid-stream the upstream call is closed
\* and the store is left exactly as a normal finish (sentinel) leaves it for
\* the same accumulated answer text: the text is upserted for the thread.
C8_DisconnectPersists ==
    (req.stream /\ pc \in {"cancelled", "done"}) =>
        /\ ~upstream_open
        /\ store = StoreAfterPersist

C8_Witness ==
    /\ pc = "cancelled"
    /\ ~upstream_open
    /\ HasRecord(store, chat_id, arrived.rid, <<"a">>)
    /\ store # store0

\* ---------------------------------------------------------------------- C9
\* C9: for the same upstream events ended by the sentinel the two modes
\* agree: same content, same reasoning content, same finish_reason, same
\* text persisted.
C9_ModesAgree ==
    pc = "done" =>
        /\ resp.content = ContentOf(out)
        /\ resp.reasoning_content = ReasoningOf(out)
        /\ resp.finish_reason = out[Len(out) - 1].finish_reason
        /\ PersistAfterChat(store0, chat_id, ns.current_response_id, ns.response_text)
             = PersistAfterChat(store0, chat_id, st.current_response_id,
                                st.assistant_content)

\* --------------------------------------------------------------------- C10
\* C10: the non-streaming response carries all answer deltas in arrival
\* order, all think deltas, the finish_reason captured last (default "stop")
\* and the usage of the last event that carried usage.
C10_NonStreamingAggregate ==
    (~req.stream /\ pc = "done") =>
        /\ resp.present
        /\ resp.content = arrived.answerPhase
        /\ resp.reasoning_content = arrived.think
        /\ resp.finish_reason = arrived.finish
        /\ resp.usage = arrived.usage

\* ---------------------------------------------------------------------- C11
\* C11: when an exchange has ended (sentinel, end of body, or error) and its
\* answer buffer is empty, the store is the store the exchange began with:
\* no row was inserted, replaced or removed.
C11_EmptyBufferLeavesStore ==
    (pc \in {"done", "closed", "error", "crashed"} /\ AnswerBuffer = <<>>)
        => store = store0

\* an exchange that received a turn id and reasoning but no answer text has
\* ended on the sentinel, the store holding a row of an earlier thread
C11_Witness ==
    /\ pc = "done"
    /\ AnswerBuffer = <<>>
    /\ arrived.rid # "none"
    /\ arrived.think # <<>>
    /\ store # <<>>

\* ---------------------------------------------------------------------- C12
\* C12: a request whose history holds no assistant turn never continues a
\* stored thread.  The step that accepts it either creates exactly one
\* upstream thread, which becomes the thread of the exchange, and prepares
\* the upstream request with a null parent turn id; or, when the upstream
\* refuses the creation, creates no thread and prepares no upstream request.
C12_Step ==
    (nReq' = nReq + 1 /\ user_ok /\ ~req'.hasAssistant) =>
        \/ /\ pc' = "ready"
           /\ created'
           /\ nextChat' = nextChat + 1
           /\ chat_id' = nextChat'
           /\ parent_id' = "none"
        \/ /\ pc' = "failed"
           /\ fault' = "create_chat"
           /\ nextChat' = nextChat
           /\ ~upstream_open'

C12_NoAssistantStartsNew == [][C12_Step]_vars

\* a request without assistant turn has been given a new thread although
\* the store holds a row whose text normalizes to the empty text
C12_Witness ==
    /\ pc = "ready"
    /\ ~req.hasAssistant
    /\ created
    /\ parent_id = "none"
    /\ \E i \in 1..Len(store) : normalize_text(store[i].last_assistant_content) = <<>>

\* ---------------------------------------------------------------------- C13
\* the row equals the request's most recent assistant text up to
\* normalization
EqualNormalized(row) ==
    normalize_text(row.last_assistant_content) = normalize_text(req.assistant)

\* C13: (a) when the most recent assistant text of the request equals no
\* stored text up to normalization, the exchange runs on a newly created
\* thread with a null parent; (b) an exchange that continues a stored thread
\* continues one whose stored text equals that assistant text up to
\* normalization, with that row's turn id as parent.  (chat_id = 0: the
\* exchange has no thread, no request or a refused creation.)
C13_NoFalsePositive ==
    chat_id # 0 =>
        /\ (req.hasAssistant /\ \A i \in 1..Len(store0) : ~EqualNormalized(store0[i]))
               => (created /\ parent_id = "none")
        /\ ~created =>
               /\ req.hasAssistant
               /\ \E i \in 1..Len(store0) :
                      /\ store0[i].chat_id = chat_id
                      /\ store0[i].current_response_id = parent_id
                      /\ EqualNormalized(store0[i])

\* a request with an assistant text was given a new thread while the store
\* held rows, none of them equal to that text up to normalization
C13_Witness ==
    /\ pc = "ready"
    /\ req.hasAssistant
    /\ req.assistant # <<>>
    /\ store0 # <<>>
    /\ \A i \in 1..Len(store0) : ~EqualNormalized(store0[i])
    /\ created

\* ================================================ texts and the normalizer
\* A second specification: the normalizer and the matcher applied to every
\* text of at most MaxTextLen tokens.
TextAlphabet == {"a", " ", "*", "E", "&", "amp;"}

Texts == UNION { [1..n -> TextAlphabet] : n \in 0..MaxTextLen }

\* a text with its emphasis markers and emoji deleted and its whitespace
\* trimmed and collapsed: what is left when whitespace amounts, markers and
\* emoji are disregarded
Canon(text) == Collapse(Strip(Without(text, Markers \cup Emoji)))

\* x and y differ only in whitespace, emphasis markers or emoji
DifferOnlyInNoise(x, y) == Canon(x) = Canon(y)

AsHistory(text) == [hasAssistant |-> TRUE, assistant |-> text, stream |-> FALSE]

InitText ==
    /\ store \in InitialStores
    /\ nextChat = Len(store)
    /\ store0 = store
    /\ user_ok = TRUE
    /\ \E x \in Texts, y \in Texts :
           /\ DifferOnlyInNoise(x, y)
           /\ probe = [op |-> "input", x |-> x, y |-> y]
    /\ up = NoUpload
    /\ ExchangeIdle

\* normalize_text applied to x once and twice
ApplyNormalize ==
    /\ probe.op = "input"
    /\ probe' = [op |-> "normalized", x |-> probe.x, y |-> probe.y,
                 once |-> normalize_text(probe.x),
                 twice |-> normalize_text(normalize_text(probe.x))]
    /\ UNCHANGED <<store, nextChat, nReq, req, pc, chat_id, parent_id, created,
                   upstream_open, lineNo, st, ns, out, atYield, resp, store0,
                   arrived, user_ok, fault, up>>

\* find_matching_session applied to a history ending in x and to one ending
\* in y, against the same store
ResolveBoth ==
    /\ probe.op = "input"
    /\ probe' = [op |-> "resolved", x |-> probe.x, y |-> probe.y,
                 sx |-> find_matching_session(store, AsHistory(probe.x)),
                 sy |-> find_matching_session(store, AsHistory(probe.y))]
    /\ UNCHANGED <<store, nextChat, nReq, req, pc, chat_id, parent_id, created,
                   upstream_open, lineNo, st, ns, out, atYield, resp, store0,
                   arrived, user_ok, fault, up>>

NextText ==
    \/ ApplyNormalize
    \/ ResolveBoth

SpecText == InitText /\ [][NextText]_vars

\* ---------------------------------------------------------------------- C14
\* C14: two histories whose most recent assistant texts differ only in
\* whitespace, emphasis markers or emoji resolve alike against the same
\* store: to the same stored thread, or both to no thread.
C14_NoiseResolvesAlike ==
    probe.op = "resolved" => probe.sx = probe.sy

\* ---------------------------------------------------------------------- C15
\* C15: normalizing a normalized text changes nothing:
\* normalize_text(normalize_text(x)) = normalize_text(x).
C15_NormalizeIdempotent ==
    probe.op = "normalized" => probe.twice = probe.once

\* ===================================================== the session table
\* A third specification: the operations of ChatHistoryManager on the table
\* chat_sessions, with rows of all seven columns.
ChatIds == {1, 2}
Titles == {"t1", "t2"}
Times == {1, 2}
ChatTypes == {"t2t", ""}
ResponseIds == {"r1", "r2"}
Contents == {<<"a">>, <<"a", OpenTag, "x", CloseTag>>}

\* variant: a plain INSERT, the row of the same chat_id stays
update_session_row_Insert(rows, cid, title, created_at, updated_at, chat_type, rid, content) ==
    Append(rows,
           [chat_id |-> cid, title |-> title, created_at |-> created_at,
            updated_at |-> updated_at, chat_type |-> chat_type,
            current_response_id |-> rid,
            last_assistant_content |-> remove_tool(content)])

\* ChatHistoryManager.update_session with all its parameters: INSERT OR
\* REPLACE on the primary key chat_id
update_session_row(rows, cid, title, created_at, updated_at, chat_type, rid, content) ==
    Append(DeleteRows(rows, cid),
           [chat_id |-> cid, title |-> title, created_at |-> created_at,
            updated_at |-> updated_at, chat_type |-> chat_type,
            current_response_id |-> rid,
            last_assistant_content |-> remove_tool(content)])

\* ChatHistoryManager.delete_session: DELETE ... WHERE chat_id = ?
delete_session(rows, cid) == DeleteRows(rows, cid)

\* ChatHistoryManager.clear_all_sessions: DELETE FROM chat_sessions
clear_all_sessions(rows) == <<>>

\* init_database on a new file: the table is empty
InitStore ==
    /\ store = <<>>
    /\ nextChat = 0
    /\ store0 = store
    /\ user_ok = TRUE
    /\ probe = NoProbe
    /\ up = NoUpload
    /\ ExchangeIdle

Upsert(c, t, ca, ua, ty, r, x) ==
    /\ store' = update_session_row(store, c, t, ca, ua, ty, r, x)
    /\ probe' = [op |-> "upsert", chat_id |-> c,
                 had |-> (\E i \in 1..Len(store) : store[i].chat_id = c),
                 title |-> t, created_at |-> ca, updated_at |-> ua,
                 chat_type |-> ty, current_response_id |-> r,
                 last_assistant_content |-> x]
    /\ UNCHANGED <<nextChat, nReq, req, pc, chat_id, parent_id, created,
                   upstream_open, lineNo, st, ns, out, atYield, resp, store0,
                   arrived, user_ok, fault, up>>

Delete(c) ==
    /\ store' = delete_session(store, c)
    /\ probe' = [op |-> "delete", chat_id |-> c]
    /\ UNCHANGED <<nextChat, nReq, req, pc, chat_id, parent_id, created,
                   upstream_open, lineNo, st, ns, out, atYield, resp, store0,
                   arrived, user_ok, fault, up>>

Clear ==
    /\ store' = clear_all_sessions(store)
    /\ probe' = [op |-> "clear"]
    /\ UNCHANGED <<nextChat, nReq, req, pc, chat_id, parent_id, created,
                   upstream_open, lineNo, st, ns, out, atYield, resp, store0,
                   arrived, user_ok, fault, up>>

NextStore ==
    \/ \E c \in ChatIds, t \in Titles, ca \in Times, ua \in Times, ty \in ChatTypes,
          r \in ResponseIds, x \in Contents : Upsert(c, t, ca, ua, ty, r, x)
    \/ \E c \in ChatIds : Delete(c)
    \/ Clear

SpecStore == InitStore /\ [][NextStore]_vars

\* ---------------------------------------------------------------------- C16
\* the rows of a thread, in table order
RowsOf(rows, c) == SelectSeq(rows, LAMBDA r : r.chat_id = c)

\* C16: after every upsert, delete or clear the table holds at most one row
\* per chat_id; and after an upsert the row of its chat_id carries the
\* upsert's value in every column (nothing of an earlier row of that chat_id
\* is left), while the rows of every other chat_id are what they were.
C16_Step ==
    /\ \A c \in ChatIds : Len(RowsOf(store', c)) <= 1
    /\ probe'.op = "upsert" =>
           /\ RowsOf(store', probe'.chat_id) =
                  << [chat_id |-> probe'.chat_id, title |-> probe'.title,
                      created_at |-> probe'.created_at,
                      updated_at |-> probe'.updated_at,
                      chat_type |-> probe'.chat_type,
                      current_response_id |-> probe'.current_response_id,
                      last_assistant_content |->
                          remove_tool(probe'.last_assistant_content)] >>
           /\ \A d \in ChatIds \ {probe'.chat_id} :
                  RowsOf(store', d) = RowsOf(store, d)

C16_OneRowPerThread == [][C16_Step]_vars

\* an upsert has replaced the row of a thread while the table also holds
\* the row of another thread
C16_Witness ==
    /\ probe.op = "upsert"
    /\ probe.had
    /\ Len(store) = 2

C18_AuthFailsFirst ==
    ~user_ok =>
        /\ pc \in {"idle", "unauthorized"}
        /\ store = store0
        /\ store \in InitialStores
        /\ nextChat = Len(store)
        /\ chat_id = 0
        /\ ~created
        /\ ~upstream_open
        /\ lineNo = 0
        /\ out = <<>>
        /\ ~resp.present

\* a second request in a row, resending a stored assistant text, has been
\* refused
C18_Witness ==
    /\ ~user_ok
    /\ pc = "unauthorized"
    /\ nReq > 1
    /\ req.hasAssistant
    /\ find_matching_session(store, req) # NoSession

\* ===================================================== store failures
\* A fourth specification: the exchange of Spec on a short alphabet of
\* upstream lines, with the session store failing (sqlite3 raising) when it
\* is read by the matcher or written after the chat.
FaultLines ==
    { Ev("r1", FALSE, "none", "typing", <<>>, "absent", 0),
      Ev("absent", TRUE, "think", "typing", <<"a">>, "absent", 0),
      Ev("absent", TRUE, "answer", "typing", <<"a">>, "absent", 0) }

InitFaults == Init /\ user_ok

\* variant: the failed read is taken for "no match" and a thread is created
RequestStoreReadFails_Swallowed(m) ==
    /\ pc \in Terminal
    /\ nReq < MaxRequests
    /\ user_ok
    /\ m.hasAssistant
    /\ m.assistant # <<>>
    /\ Fresh(m)
    /\ fault' = "store_read"
    /\ nextChat' = nextChat + 1
    /\ chat_id' = nextChat + 1
    /\ parent_id' = "none"
    /\ created' = TRUE
    /\ pc' = "ready"

\* get_session_by_last_content raises (sqlite3.connect or execute, lines
\* 372-378): neither find_matching_session nor chat_completions catches it,
\* the route answers HTTP 500 server_error (lines 2196-2208).  The store is
\* read only for a non-empty assistant text (lines 757-766).
RequestStoreReadFails(m) ==
    /\ pc \in Terminal
    /\ nReq < MaxRequests
    /\ user_ok
    /\ m.hasAssistant
    /\ m.assistant # <<>>
    /\ Fresh(m)
    /\ fault' = "store_read"
    /\ chat_id' = 0
    /\ parent_id' = "none"
    /\ created' = FALSE
    /\ pc' = "failed"
    /\ UNCHANGED nextChat

\* the ways an exchange reaches update_session_after_chat
Ends(stream) == IF stream THEN {"done", "closed", "error", "cancelled"}
                ELSE {"done", "closed"}

\* update_session raises inside update_session_after_chat.  Streaming: the
\* call sits in the finally block of generate() (lines 1030-1046), after
\* every chunk of the ending was yielded; the exception ends the generator.
\* Non-streaming: the call (lines 1107-1122) precedes the construction of
\* the response (lines 1125-1145); the exception is no RequestException,
\* leaves chat_completions and is answered by the route with HTTP 500.
StoreWriteFails(end) ==
    /\ pc = "streaming"
    /\ end \in Ends(req.stream)
    /\ end = "cancelled" => atYield
    /\ AnswerBuffer # <<>>
    /\ (IF req.stream THEN st.current_response_id ELSE ns.current_response_id) # "none"
    /\ fault' = "store_write"
    /\ pc' = IF req.stream THEN end ELSE "failed"
    /\ out' = IF req.stream /\ end = "done"
              THEN out \o <<FinalChunk(st.finish_reason), DoneMarker>>
              ELSE IF req.stream /\ end = "error" THEN out \o <<ErrorChunk>>
              ELSE out
    /\ upstream_open' = FALSE
    /\ atYield' = FALSE
    /\ UNCHANGED <<store, nextChat, nReq, req, chat_id, parent_id, created, lineNo,
                   st, ns, resp, store0, arrived, user_ok, probe, up>>

NextFaults ==
    \/ \E m \in Requests(store) : RequestContinue(m)
    \/ \E m \in Requests(store) : RequestNew(m)
    \/ \E m \in Requests(store) : RequestCreateFails(m)
    \/ \E m \in Requests(store) : RequestStoreReadFails(m)
    \/ PostOk
    \/ PostFails
    \/ \E line \in FaultLines : UpstreamLine(line)
    \/ Sentinel
    \/ UpstreamCloses
    \/ TransportError
    \/ ClientDisconnects
    \/ \E end \in {"done", "closed", "error", "cancelled"} : StoreWriteFails(end)

SpecFaults == InitFaults /\ [][NextFaults]_vars

\* ---------------------------------------------------------------------- C19
\* C19: (a) the step on which the matcher's read of the store fails ends the
\* exchange as a server error: no thread is created, no upstream response
\* is opened, the store is untouched; (b) the step that accepts a request
\* matching no stored row, with no failure, creates a thread and goes on to
\* the upstream request.
C19_Step ==
    nReq' = nReq + 1 =>
        /\ fault' = "store_read" =>
               /\ pc' = "failed"
               /\ chat_id' = 0
               /\ nextChat' = nextChat
               /\ store' = store
               /\ ~upstream_open'
        /\ (fault' = "none" /\ find_matching_session(store, req') = NoSession) =>
               /\ pc' = "ready"
               /\ created'
               /\ nextChat' = nextChat + 1

C19_ReadFailureIsFatal == [][C19_Step]_vars

\* the read failed for a request whose assistant text a stored row matches
C19_Witness ==
    /\ fault = "store_read"
    /\ pc = "failed"
    /\ find_matching_session(store, req) # NoSession

\* ---------------------------------------------------------------------- C20
\* C20: when the store fails while the result of an exchange is persisted,
\* the client still has the answer: in streaming mode the chunks sent carry
\* answer text, in non-streaming mode the response is returned with the
\* accumulated answer as content.
C20_AnswerDeliveredWithoutStore ==
    fault = "store_write" =>
        IF req.stream
        THEN ContentOf(SelectSeq(out, NotErrorChunk)) # <<>>
        ELSE resp.present /\ resp.content = ns.response_text

\* ================================================== the reasoning budget
\* A fifth specification: the feature_config of the upstream request,
\* built by the text exchange and by the multimodal exchange, for every
\* combination of the enable_thinking flag, the client's thinking_budget
\* and the per-model default of user_settings.
\* A budget is [given, value]: given = FALSE stands for None (the client
\* sent none, user_settings holds none for the model).
Budgets ==
    { [given |-> FALSE, value |-> 0] }
    \cup { [given |-> TRUE, value |-> v] : v \in 0..MaxBudget }

NoBudgetField == [present |-> FALSE, value |-> 0]

\* chat_completions, lines 880-892: the budget field of feature_config
feature_config_text(enable_thinking, thinking_budget, default_budget) ==
    IF ~enable_thinking THEN NoBudgetField
    ELSE IF thinking_budget.given
         THEN [present |-> TRUE, value |-> thinking_budget.value]
    ELSE IF default_budget.given /\ default_budget.value # 0
         THEN [present |-> TRUE, value |-> default_budget.value]
    ELSE NoBudgetField

\* multimodal_chat_completions, lines 1330-1336: no default is looked up
feature_config_multimodal(enable_thinking, thinking_budget, default_budget) ==
    IF ~enable_thinking THEN NoBudgetField
    ELSE IF thinking_budget.given
         THEN [present |-> TRUE, value |-> thinking_budget.value]
    ELSE NoBudgetField

InitBudget ==
    /\ store = <<>>
    /\ nextChat = 0
    /\ store0 = store
    /\ user_ok = TRUE
    /\ up = NoUpload
    /\ \E mm \in BOOLEAN, e \in BOOLEAN, b \in Budgets, d \in Budgets :
           probe = [op |-> "request", multimodal |-> mm, enable_thinking |-> e,
                    thinking_budget |-> b, default_budget |-> d]
    /\ ExchangeIdle

\* the request payload is composed
ComposePayload ==
    /\ probe.op = "request"
    /\ probe' = [op |-> "payload", multimodal |-> probe.multimodal,
                 enable_thinking |-> probe.enable_thinking,
                 thinking_budget |-> probe.thinking_budget,
                 default_budget |-> probe.default_budget,
                 field |->
                   IF probe.multimodal
                   THEN feature_config_multimodal(probe.enable_thinking,
                            probe.thinking_budget, probe.default_budget)
                   ELSE feature_config_text(probe.enable_thinking,
                            probe.thinking_budget, probe.default_budget)]
    /\ UNCHANGED <<store, nextChat, nReq, req, pc, chat_id, parent_id, created,
                   upstream_open, lineNo, st, ns, out, atYield, resp, store0,
                   arrived, user_ok, fault, up>>

NextBudget == ComposePayload

SpecBudget == InitBudget /\ [][NextBudget]_vars

\* ---------------------------------------------------------------------- C30
\* C30: the composed request omits the budget field exactly when the client
\* gave no budget and no default is configured for the model; otherwise the
\* field carries the client's value when the client gave one, else the
\* configured default; in the text and in the multimodal exchange alike.
C30_BudgetField ==
    probe.op = "payload" =>
        /\ ~probe.field.present
               <=> (~probe.thinking_budget.given /\ ~probe.default_budget.given)
        /\ probe.field.present =>
               probe.field.value =
                   IF probe.thinking_budget.given THEN probe.thinking_budget.value
                   ELSE probe.default_budget.value

\* ================================================================ uploads
\* A sixth specification: one upload through one of the three upload
\* routes, from the STS credential to the result given to the client.
\* Sizes are counted in MiB.
\* upload_file, line 2330
MULTIPART_THRESHOLD == 5
\* upload_image_and_chat, lines 2537 and 2554: the literal 5 * 1024 * 1024
IMAGE_MULTIPART_SIZE == 5
\* upload_multipart_to_oss, line 1935
chunk_size == 5
\* upload_image_and_chat, line 2479
max_size == 10

Entries == {"upload_file", "upload_image_and_chat", "upload_video_and_chat"}

\* determine_filetype for upload_file; the other routes fix the filetype
MediaOf(entry) ==
    IF entry = "upload_file" THEN {"image", "video", "file"}
    ELSE IF entry = "upload_image_and_chat" THEN {"image"}
    ELSE {"video"}

\* which keys the "data" of the STS response holds
Credentials ==
    [access_key_id : BOOLEAN, access_key_secret : BOOLEAN,
     security_token : BOOLEAN, file_path : BOOLEAN]

NoCredential ==
    [access_key_id |-> FALSE, access_key_secret |-> FALSE,
     security_token |-> FALSE, file_path |-> FALSE]

SecretFields == {"access_key_secret", "security_token"}

\* the secret fields a credential holds
SecretsOf(cred) == { f \in SecretFields : cred[f] }

\* status codes the storage service answers with
Statuses == {200, 201, 204, 403}

\* a reply of the storage service: an exception of the HTTP client, or a
\* status; upload_id tells whether an initiate reply names an UploadId
Replies ==
    { [raised |-> TRUE, status |-> 0, upload_id |-> FALSE] }
    \cup { [raised |-> FALSE, status |-> s, upload_id |-> TRUE] : s \in Statuses }
    \cup { [raised |-> FALSE, status |-> 200, upload_id |-> FALSE] }

\* what verify_auth_token (lines 146-187) makes of the Authorization
\* header: accepted (or no token list configured), header missing or not a
\* Bearer header (401), token not in the list (403)
Bearers == {"ok", "missing", "invalid"}

NewUpload(entry, media, size, bearer, sts, cred, file_url) ==
    [entry |-> entry, media |-> media, size |-> size, bearer |-> bearer,
     sts |-> sts,
     cred |-> cred, file_url |-> file_url,
     pc |-> "start", attempts |-> <<>>, reqs |-> <<>>,
     offset |-> 0, part_number |-> 1, parts |-> <<>>,
     post_status |-> 0, last_success |-> FALSE, last_url |-> "none",
     logged |-> {}, status |-> 0, type |-> "none", url |-> "none"]

\* the STS call fails ("error"), answers without data ("nodata"), or
\* answers with a credential holding some of the keys
InitUpload ==
    /\ store = <<>>
    /\ nextChat = 0
    /\ store0 = store
    /\ user_ok \in BOOLEAN
    /\ probe = NoProbe
    /\ ExchangeIdle
    /\ \E entry \in Entries, size \in 0..MaxSize, bearer \in Bearers :
       \E media \in MediaOf(entry) :
           \/ \E cred \in Credentials, file_url \in BOOLEAN :
                  up = NewUpload(entry, media, size, bearer, "ok", cred, file_url)
           \/ \E sts \in {"error", "nodata"} :
                  up = NewUpload(entry, media, size, bearer, sts, NoCredential, FALSE)

UploadFrame ==
    UNCHANGED <<store, nextChat, nReq, req, pc, chat_id, parent_id, created,
                upstream_open, lineNo, st, ns, out, atYield, resp, store0,
                arrived, user_ok, fault, probe>>

\* variant: the exception is surfaced under a type of its own
Surface_Unmapped(u, status, type) ==
    [u EXCEPT !.pc = "done", !.status = status, !.type = "internal_error"]

\* the route raises an HTTPException
Surface(u, status, type) ==
    [u EXCEPT !.pc = "done", !.status = status, !.type = type]

\* the route, up to the choice of the upload path: the dependency
\* verify_auth_token, whose HTTPException carries a plain string and no
\* error type ("untyped"); the size limit of the
\* image route (lines 2478-2490), get_sts_token (lines 1164-1224, which
\* logs the whole response, line 1187) and the checks of the response
\* (upload_file, lines 2295-2320)
StartUpload ==
    /\ up.pc = "start"
    /\ up' =
         IF up.bearer = "missing"
         THEN Surface(up, 401, "untyped")
         ELSE IF up.bearer = "invalid"
         THEN Surface(up, 403, "untyped")
         ELSE IF up.entry = "upload_image_and_chat" /\ up.size > max_size
         THEN Surface(up, 400, "invalid_request_error")
         ELSE IF up.sts = "error"
         THEN Surface(up, 500, "server_error")
         ELSE LET u == [up EXCEPT !.logged = SecretsOf(up.cred)]
              IN  IF up.entry = "upload_file"
                     /\ (up.sts = "nodata"
                         \/ ~up.cred.access_key_id
                         \/ ~up.cred.access_key_secret
                         \/ ~up.cred.security_token)
                  THEN Surface(u, 500, "sts_error")
                  ELSE [u EXCEPT !.pc = "choose"]
    /\ UploadFrame

\* variant: the image route's comparison in every route
first_path_ImageRule(entry, media, size) ==
    IF entry = "upload_video_and_chat" \/ media = "video" THEN "multi"
    ELSE IF size >= IMAGE_MULTIPART_SIZE THEN "multi"
    ELSE "single"

\* the path tried first: upload_file lines 2330-2331, upload_image_and_chat
\* line 2537, upload_video_and_chat lines 2716-2717
first_path(entry, media, size) ==
    IF entry = "upload_file"
    THEN (IF media = "video" \/ size > MULTIPART_THRESHOLD THEN "multi" ELSE "single")
    ELSE IF entry = "upload_image_and_chat"
    THEN (IF size >= IMAGE_MULTIPART_SIZE THEN "multi" ELSE "single")
    ELSE "multi"

other_path(path) == IF path = "single" THEN "multi" ELSE "single"

\* the route calls an upload function.  The call of upload_with_oss_post_form
\* evaluates sts_data["file_path"] (lines 2348, 2546, 2558, 2723): without
\* that key the KeyError is raised in the route and surfaces as a
\* server_error before the function is entered
Attempt(u, path) ==
    IF path = "single" /\ ~u.cred.file_path
    THEN Surface(u, 500, "server_error")
    ELSE [u EXCEPT !.pc = path, !.attempts = Append(u.attempts, path),
                   !.offset = 0, !.part_number = 1, !.parts = <<>>]

ChoosePath ==
    /\ up.pc = "choose"
    /\ up' = Attempt(up, first_path(up.entry, up.media, up.size))
    /\ UploadFrame

\* a request to the storage service; ok: the caller took the reply for a
\* success
Request(kind, part, from, to, manifest, ok) ==
    [kind |-> kind, part |-> part, from |-> from, to |-> to,
     manifest |-> manifest, ok |-> ok]

\* an upload function returns {"success": False}
AttemptFailed(u) ==
    [u EXCEPT !.pc = "attempt_done", !.last_success = FALSE, !.last_url = "none"]

\* an upload function returns {"success": True, "url": ...}
AttemptSucceeded(u, url) ==
    [u EXCEPT !.pc = "attempt_done", !.last_success = TRUE, !.last_url = url]

Min(a, b) == IF a < b THEN a ELSE b

\* variant: every 2xx status counts as success
post_form_ok_Any2xx(reply) == ~reply.raised /\ reply.status \in 200..299

\* upload_with_oss_post_form, line 1769
post_form_ok(reply) == ~reply.raised /\ reply.status \in {200, 204}

\* upload_with_oss_post_form (lines 1701-1786): sts_data["security_token"],
\* ["access_key_secret"] and ["access_key_id"] raise KeyError when absent,
\* which the function turns into a failure before any request; otherwise
\* the form is logged (line 1758) and one POST is made
SinglePost(reply) ==
    /\ up.pc = "single"
    /\ up' =
         IF ~up.cred.security_token \/ ~up.cred.access_key_secret
            \/ ~up.cred.access_key_id
         THEN AttemptFailed(up)
         ELSE LET u == [up EXCEPT
                          !.logged = up.logged \cup {"security_token"},
                          !.reqs = Append(up.reqs, Request("post_form", 0, 0, up.size, <<>>,
                                                          post_form_ok(reply))),
                          !.post_status = reply.status]
              IN  IF post_form_ok(reply) THEN AttemptSucceeded(u, "built")
                  ELSE AttemptFailed(u)
    /\ UploadFrame

\* variant: the initiate request is made without the credential check
MultiInitiate_NoCheck(reply) ==
    /\ up.pc = "multi"
    /\ up' =
         LET u == [up EXCEPT
                     !.logged = up.logged \cup {"security_token"},
                     !.reqs = Append(up.reqs, Request("initiate", 0, 0, 0, <<>>,
                                 ~reply.raised /\ reply.status = 200
                                 /\ reply.upload_id))]
         IN  IF ~reply.raised /\ reply.status = 200 /\ reply.upload_id
             THEN [u EXCEPT !.pc = "parts"]
             ELSE AttemptFailed(u)
    /\ UploadFrame

\* upload_multipart_to_oss, lines 1788-1929: the credential check, then the
\* initiate request (its canonical request, which holds the security token
\* header, is logged at line 1868)
MultiInitiate(reply) ==
    /\ up.pc = "multi"
    /\ up' =
         IF ~up.cred.access_key_id \/ ~up.cred.access_key_secret
            \/ ~up.cred.security_token \/ ~up.cred.file_path
         THEN AttemptFailed(up)
         ELSE LET u == [up EXCEPT
                          !.logged = up.logged \cup {"security_token"},
                          !.reqs = Append(up.reqs, Request("initiate", 0, 0, 0, <<>>,
                                      ~reply.raised /\ reply.status = 200
                                      /\ reply.upload_id))]
              IN  IF ~reply.raised /\ reply.status = 200 /\ reply.upload_id
                  THEN [u EXCEPT !.pc = "parts"]
                  ELSE AttemptFailed(u)
    /\ UploadFrame

\* variant: a refused chunk is skipped and the loop goes on
PutChunk_SkipFailed(reply) ==
    /\ up.pc = "parts"
    /\ up.offset < up.size
    /\ up' =
         LET u == [up EXCEPT
                     !.reqs = Append(up.reqs,
                                 Request("put", up.part_number, up.offset,
                                         Min(up.offset + chunk_size, up.size), <<>>,
                                         ~reply.raised /\ reply.status \in {200, 201})),
                     !.offset = up.offset + chunk_size,
                     !.part_number = up.part_number + 1]
         IN  IF ~reply.raised /\ reply.status \in {200, 201}
             THEN [u EXCEPT !.parts = Append(up.parts, up.part_number)]
             ELSE u
    /\ UploadFrame

\* one pass of the loop of lines 1940-1980: PUT of the next chunk
PutChunk(reply) ==
    /\ up.pc = "parts"
    /\ up.offset < up.size
    /\ up' =
         LET u == [up EXCEPT
                     !.reqs = Append(up.reqs,
                                 Request("put", up.part_number, up.offset,
                                         Min(up.offset + chunk_size, up.size), <<>>,
                                         ~reply.raised /\ reply.status \in {200, 201}))]
         IN  IF ~reply.raised /\ reply.status \in {200, 201}
             THEN [u EXCEPT !.parts = Append(up.parts, up.part_number),
                            !.offset = up.offset + chunk_size,
                            !.part_number = up.part_number + 1]
             ELSE AttemptFailed(u)
    /\ UploadFrame

\* variant: the complete request may be sent before every chunk was put
Complete_Early(reply) ==
    /\ up.pc = "parts"
    /\ up' =
         LET u == [up EXCEPT
                     !.reqs = Append(up.reqs,
                                 Request("complete", 0, 0, 0, up.parts,
                                         ~reply.raised /\ reply.status \in {200, 201}))]
         IN  IF ~reply.raised /\ reply.status \in {200, 201}
             THEN AttemptSucceeded(u, IF up.file_url THEN "presigned" ELSE "built")
             ELSE AttemptFailed(u)
    /\ UploadFrame

\* lines 1982-2039: the complete request with the manifest of the parts
Complete(reply) ==
    /\ up.pc = "parts"
    /\ up.offset >= up.size
    /\ up' =
         LET u == [up EXCEPT
                     !.reqs = Append(up.reqs,
                                 Request("complete", 0, 0, 0, up.parts,
                                         ~reply.raised /\ reply.status \in {200, 201}))]
         IN  IF ~reply.raised /\ reply.status \in {200, 201}
             THEN AttemptSucceeded(u, IF up.file_url THEN "presigned" ELSE "built")
             ELSE AttemptFailed(u)
    /\ UploadFrame

\* variant: the URL of the upload function is returned
access_url_FromUpload(u) == u.last_url

\* upload_file, lines 2362-2366; the other routes, lines 2581 and 2732
access_url(u) == IF u.file_url THEN "presigned" ELSE u.last_url

\* variant: the other path is tried after every failure
AfterAttempt_AlwaysRetry ==
    /\ up.pc = "attempt_done"
    /\ up' =
         IF up.last_success
         THEN (IF up.entry = "upload_file"
               THEN [up EXCEPT !.pc = "done", !.status = 200, !.url = access_url(up)]
               ELSE [up EXCEPT !.pc = "chat", !.url = access_url(up)])
         ELSE IF up.entry = "upload_file"
         THEN Surface(up, 500, "upload_error")
         ELSE Attempt(up, other_path(up.attempts[Len(up.attempts)]))
    /\ UploadFrame

\* the route after an upload function returned: upload_file has no second
\* attempt (lines 2353-2392); the image and video routes call the other
\* function once (lines 2552-2578, 2719-2729)
AfterAttempt ==
    /\ up.pc = "attempt_done"
    /\ up' =
         IF up.last_success
         THEN (IF up.entry = "upload_file"
               THEN [up EXCEPT !.pc = "done", !.status = 200, !.url = access_url(up)]
               ELSE [up EXCEPT !.pc = "chat", !.url = access_url(up)])
         ELSE IF up.entry = "upload_file"
         THEN Surface(up, 500, "upload_error")
         ELSE IF Len(up.attempts) = 1
         THEN Attempt(up, other_path(up.attempts[1]))
         ELSE Surface(up, 500, "upload_error")
    /\ UploadFrame

\* multimodal_chat_completions called by the image and video routes: the
\* check of lines 1235-1247, then the exchange, which succeeds or ends as a
\* server_error
Chat(ok) ==
    /\ up.pc = "chat"
    /\ up' = IF ~user_ok THEN Surface(up, 401, "authentication_error")
             ELSE IF ok THEN [up EXCEPT !.pc = "done", !.status = 200]
             ELSE Surface(up, 500, "server_error")
    /\ UploadFrame

NextUpload ==
    \/ StartUpload
    \/ ChoosePath
    \/ \E reply \in Replies : SinglePost(reply)
    \/ \E reply \in Replies : MultiInitiate(reply)
    \/ \E reply \in Replies : PutChunk(reply)
    \/ \E reply \in Replies : Complete(reply)
    \/ AfterAttempt
    \/ \E ok \in BOOLEAN : Chat(ok)

SpecUpload == InitUpload /\ [][NextUpload]_vars

\* ============================================== properties of the uploads
\* the upload has ended as an upload failure
UploadFailed == up.pc = "done" /\ up.type = "upload_error"

C22_Original ==
    Len(up.attempts) >= 1 =>
        (up.attempts[1] = "multi"
             <=> (up.media = "video" \/ up.size > MULTIPART_THRESHOLD))

\* C22, amended: the multi-part path is first, in upload_file exactly when
\* the media is video or the size exceeds 5 MiB, in the image route exactly
\* when the size is at least 5 MiB, in the video route always.
C22_FirstPath ==
    Len(up.attempts) >= 1 =>
        (up.attempts[1] = "multi" <=>
            CASE up.entry = "upload_file" ->
                     up.media = "video" \/ up.size > MULTIPART_THRESHOLD
              [] up.entry = "upload_image_and_chat" ->
                     up.size >= IMAGE_MULTIPART_SIZE
              [] OTHER -> TRUE)

\* a file of exactly 5 MiB that is no video went to the form POST in
\* upload_file
C22_Witness ==
    /\ up.entry = "upload_file"
    /\ up.media # "video"
    /\ up.size = MULTIPART_THRESHOLD
    /\ up.attempts = <<"single">>
    /\ up.reqs # <<>>


\* the requests of the multi-part attempt, in the order they were issued
\* (an upload makes at most one multi-part attempt)
MultiRequests == SelectSeq(up.reqs, LAMBDA r : r.kind # "post_form")

\* ---------------------------------------------------------------------- C23
\* C23: the requests of a multi-part upload are the initiate request, then
\* PUTs numbered 1, 2, ..., each carrying the next slice of at most one
\* chunk size, then one complete request, issued only when the slices
\* cover the bytes and listing every chunk number in increasing order.
C23_MultipartOrder ==
    LET M == MultiRequests
    IN  \A i \in 1..Len(M) :
            /\ (M[i].kind = "initiate") <=> (i = 1)
            /\ M[i].kind = "put" =>
                   /\ M[i].part = i - 1
                   /\ M[i].from = (i - 2) * chunk_size
                   /\ M[i].from < M[i].to
                   /\ M[i].to <= M[i].from + chunk_size
                   /\ M[i].to <= up.size
                   /\ (M[i].to < M[i].from + chunk_size) => (M[i].to = up.size)
            /\ M[i].kind = "complete" =>
                   /\ i = Len(M)
                   /\ \A j \in 2..(i - 1) : M[j].kind = "put"
                   /\ M[i].manifest = [k \in 1..(i - 2) |-> k]
                   /\ IF i = 2 THEN up.size = 0 ELSE M[i - 1].to = up.size

\* a file of more than two chunks was put in three chunks and completed
C23_Witness ==
    LET M == MultiRequests
    IN  /\ Len(M) = 5
        /\ M[5].kind = "complete"
        /\ M[5].ok
        /\ M[4].to - M[4].from < chunk_size

\* ---------------------------------------------------------------------- C24
\* C24: a refused initiate request or chunk PUT is the last request of the
\* multi-part attempt (no further PUT, no complete, no second PUT of that
\* chunk), and the attempt is then over and has reported failure.
C24_AbortOnFailure ==
    LET M == MultiRequests
    IN  /\ \A i \in 1..Len(M) : (i < Len(M)) => M[i].ok
        /\ \A i, j \in 1..Len(M) :
               (i < j /\ M[i].kind = "put" /\ M[j].kind = "put")
                   => M[i].part # M[j].part
        /\ (Len(M) > 0 /\ ~M[Len(M)].ok) =>
               /\ up.pc \notin {"multi", "parts"}
               /\ (up.pc = "attempt_done"
                   /\ up.attempts[Len(up.attempts)] = "multi")
                      => ~up.last_success

\* the second chunk was refused and the multi-part attempt reported failure
C24_Witness ==
    LET M == MultiRequests
    IN  /\ Len(M) = 3
        /\ M[2].ok
        /\ M[3].kind = "put"
        /\ ~M[3].ok
        /\ up.pc = "attempt_done"
        /\ ~up.last_success


\* the upload function that ran last was the form POST and has returned
SingleReturned ==
    /\ up.pc = "attempt_done"
    /\ up.attempts[Len(up.attempts)] = "single"

\* the form POST was sent and answered with a status
SingleAnswered ==
    /\ SingleReturned
    /\ up.reqs # <<>>
    /\ up.reqs[Len(up.reqs)].kind = "post_form"
    /\ up.post_status # 0

\* ---------------------------------------------------------------------- C25
\* C25 as stated: the form POST upload reports success exactly when the
\* status of the reply is a 2xx status.
C25_Original ==
    SingleAnswered => (up.last_success <=> up.post_status \in 200..299)

\* C25, amended: the form POST upload reports success exactly when the
\* status of the reply is 200 or 204; every other status, the other 2xx
\* statuses included, a reply that never arrived, and a form that could not
\* be built are reported as failure.
C25_SingleSuccess ==
    SingleReturned =>
        (up.last_success <=> (SingleAnswered /\ (up.post_status = 200 \/ up.post_status = 204)))

\* the form POST was answered 201 and the upload function reported failure
C25_Witness ==
    /\ SingleAnswered
    /\ up.post_status = 201
    /\ ~up.last_success


\* a required field is absent from the credential the STS call returned
CredentialIncomplete ==
    /\ up.pc # "none"
    /\ up.sts = "ok"
    /\ \/ ~up.cred.access_key_id
       \/ ~up.cred.access_key_secret
       \/ ~up.cred.security_token
       \/ ~up.cred.file_path

\* ---------------------------------------------------------------------- C26
\* C26: with a required field absent from the credential no request is made
\* to the storage service, on the first path or on the other, and the
\* upload never ends successfully.
C26_NoRequestWithoutCredential ==
    CredentialIncomplete =>
        /\ up.reqs = <<>>
        /\ up.url = "none"
        /\ up.pc # "chat"
        /\ up.status # 200

\* the image route tried both paths with a credential that lacks only the
\* security token and ended as a failure without any request
C26_Witness ==
    /\ CredentialIncomplete
    /\ up.cred.file_path
    /\ up.cred.access_key_id
    /\ up.cred.access_key_secret
    /\ up.entry = "upload_image_and_chat"
    /\ Len(up.attempts) = 2
    /\ up.pc = "done"
    /\ up.reqs = <<>>


\* ---------------------------------------------------------------------- C27
\* C27 as stated: no secret field of the upload credential (access key
\* secret, security token) is ever written to the log.
C27_NoSecretLogged == up.logged = {}


\* the upload route has answered with an error
UploadError == up.pc = "done" /\ up.status # 200

C29_AccessUrl ==
    /\ up.url # "none" =>
           /\ up.last_success
           /\ up.url = IF up.file_url THEN "presigned" ELSE "built"
    /\ (up.pc = "done" /\ up.status = 200) => up.url # "none"

\* the form POST succeeded, whose own result is the built URL, and the
\* client was given the pre-signed URL of the credential
C29_Witness ==
    /\ up.pc = "done"
    /\ up.status = 200
    /\ up.attempts[Len(up.attempts)] = "single"
    /\ up.last_url = "built"
    /\ up.file_url
    /\ up.url = "presigned"


\* ====================================================== order of the steps
\* A seventh specification: one exchange, cut at every point where control
\* leaves the code: the calls of chat_completions before the upstream call,
\* and every yield of generate().  probe.log records the steps in the order
\* they happen:
\*   "resolve"  find_matching_session has returned
\*   "create"   create_chat has returned
\*   "post"     session.post was called
\*   "line"     iter_lines delivered line number n
\*   "chunk"    a chunk was yielded while line number n was the last read
\*   "upsert"   update_session_after_chat has stored the session
\*   "response" the non-streaming response was returned
OrderLines ==
    { Other("bad"),
      Ev("r1", FALSE, "none", "typing", <<>>, "absent", 0),
      Ev("absent", TRUE, "think", "typing", <<"a">>, "absent", 0),
      Ev("absent", TRUE, "answer", "typing", <<"a">>, "absent", 0),
      Ev("absent", TRUE, "answer", "finished", <<>>, "length", 0) }

Step(e, n) == [e |-> e, n |-> n]

Logged(e, n) == [probe EXCEPT !.log = Append(@, Step(e, n))]

InitOrder ==
    /\ store \in InitialStores
    /\ nextChat = Len(store)
    /\ store0 = store
    /\ user_ok = TRUE
    /\ probe = [op |-> "order", log |-> <<>>]
    /\ up = NoUpload
    /\ ExchangeIdle

OrderFrame ==
    UNCHANGED <<nReq, upstream_open, atYield, store0, arrived, user_ok, fault, up>>

\* chat_completions, lines 841-859: find_matching_session returns; a match
\* gives the thread and the parent, no match leads to create_chat
OrderResolve(m) ==
    /\ pc = "idle"
    /\ req = NoReq
    /\ req' = m
    /\ probe' = Logged("resolve", 0)
    /\ IF find_matching_session(store, m) # NoSession
       THEN /\ chat_id' = find_matching_session(store, m).chat_id
            /\ parent_id' = find_matching_session(store, m).current_response_id
            /\ pc' = "ready"
       ELSE /\ pc' = "creating"
            /\ UNCHANGED <<chat_id, parent_id>>
    /\ UNCHANGED <<store, nextChat, created, lineNo, st, ns, out, resp>>
    /\ OrderFrame

\* chat_completions, lines 861-871: create_chat returns the new thread, or
\* raises (lines 719-721) and the request ends as a server error
OrderCreate(ok) ==
    /\ pc = "creating"
    /\ IF ok
       THEN /\ nextChat' = nextChat + 1
            /\ chat_id' = nextChat + 1
            /\ created' = TRUE
            /\ probe' = Logged("create", 0)
            /\ pc' = "ready"
       ELSE /\ pc' = "failed"
            /\ UNCHANGED <<nextChat, chat_id, created, probe>>
    /\ UNCHANGED <<store, req, parent_id, lineNo, st, ns, out, resp>>
    /\ OrderFrame

\* session.post and raise_for_status (lines 932-938, 1059-1060).  When they
\* raise, generate() yields the error chunk; the non-streaming form answers
\* HTTP 500
OrderPost(ok) ==
    /\ pc = "ready"
    /\ IF ok
       THEN /\ pc' = "streaming"
            /\ st' = [st EXCEPT !.bound = TRUE]
            /\ probe' = Logged("post", 0)
            /\ out' = out
       ELSE IF req.stream
       THEN /\ pc' = "at_error_yield"
            /\ out' = Append(out, ErrorChunk)
            /\ probe' = [probe EXCEPT !.log = @ \o <<Step("post", 0), Step("chunk", 0)>>]
            /\ st' = st
       ELSE /\ pc' = "failed"
            /\ probe' = Logged("post", 0)
            /\ UNCHANGED <<st, out>>
    /\ UNCHANGED <<store, nextChat, req, chat_id, parent_id, created, lineNo, ns, resp>>
    /\ OrderFrame

\* iter_lines delivers a line other than the sentinel; generate() runs to
\* the yield of the answer chunk, if the line causes one, or to the next read
OrderLine(line) ==
    /\ pc = "streaming"
    /\ lineNo < MaxLines
    /\ lineNo' = lineNo + 1
    /\ IF req.stream
       THEN /\ st' = StreamStep(st, line).st
            /\ out' = out \o StreamStep(st, line).chunks
            /\ probe' =
                 [probe EXCEPT !.log =
                     @ \o <<Step("line", lineNo + 1)>>
                       \o [i \in 1..Len(StreamStep(st, line).chunks) |->
                              Step("chunk", lineNo + 1)]]
            /\ pc' = IF StreamStep(st, line).chunks # <<>>
                     THEN "at_answer_yield" ELSE "streaming"
            /\ ns' = ns
       ELSE /\ ns' = NonStreamStep(ns, line)
            /\ probe' = Logged("line", lineNo + 1)
            /\ UNCHANGED <<st, out, pc>>
    /\ UNCHANGED <<store, nextChat, req, chat_id, parent_id, created, resp>>
    /\ OrderFrame

\* variant: the session is stored when the sentinel arrives, before the
\* final chunk is yielded
OrderSentinel_PersistFirst ==
    /\ pc = "streaming"
    /\ req.stream
    /\ lineNo < MaxLines
    /\ lineNo' = lineNo + 1
    /\ store' = PersistAfterChat(store, chat_id, st.current_response_id,
                                 st.assistant_content)
    /\ out' = Append(out, FinalChunk(st.finish_reason))
    /\ probe' = [probe EXCEPT !.log =
                    @ \o <<Step("line", lineNo + 1)>>
                      \o (IF st.assistant_content # <<>> /\ st.current_response_id # "none"
                          THEN <<Step("upsert", 0)>> ELSE <<>>)
                      \o <<Step("chunk", lineNo + 1)>>]
    /\ pc' = "at_final_yield"
    /\ UNCHANGED <<nextChat, req, chat_id, parent_id, created, st, ns, resp>>
    /\ OrderFrame

\* the line "data: [DONE]": generate() yields the final chunk (lines
\* 944-957); the non-streaming loop breaks (lines 1065-1066)
OrderSentinel ==
    /\ pc = "streaming"
    /\ lineNo < MaxLines
    /\ lineNo' = lineNo + 1
    /\ IF req.stream
       THEN /\ out' = Append(out, FinalChunk(st.finish_reason))
            /\ probe' = [probe EXCEPT !.log =
                            @ \o <<Step("line", lineNo + 1), Step("chunk", lineNo + 1)>>]
            /\ pc' = "at_final_yield"
       ELSE /\ probe' = Logged("line", lineNo + 1)
            /\ pc' = "after_loop"
            /\ out' = out
    /\ UNCHANGED <<store, nextChat, req, chat_id, parent_id, created, st, ns, resp>>
    /\ OrderFrame

\* the body ends without a sentinel: the for loop falls through
OrderCloses ==
    /\ pc = "streaming"
    /\ pc' = IF req.stream THEN "finally" ELSE "after_loop"
    /\ UNCHANGED <<store, nextChat, req, chat_id, parent_id, created, lineNo,
                   st, ns, out, resp, probe>>
    /\ OrderFrame

\* iter_lines raises a RequestException: generate() yields the error chunk
\* (lines 1015-1029); the non-streaming form answers HTTP 500 (1149-1162)
OrderTransportError ==
    /\ pc = "streaming"
    /\ IF req.stream
       THEN /\ out' = Append(out, ErrorChunk)
            /\ probe' = Logged("chunk", lineNo)
            /\ pc' = "at_error_yield"
       ELSE /\ pc' = "failed"
            /\ UNCHANGED <<out, probe>>
    /\ UNCHANGED <<store, nextChat, req, chat_id, parent_id, created, lineNo,
                   st, ns, resp>>
    /\ OrderFrame

\* the consumer asks for the next item and generate() goes on from its yield
OrderResume ==
    /\ pc \in {"at_answer_yield", "at_final_yield", "at_done_yield", "at_error_yield"}
    /\ IF pc = "at_answer_yield"
       THEN pc' = "streaming" /\ UNCHANGED <<out, probe>>
       ELSE IF pc = "at_final_yield"
       THEN /\ out' = Append(out, DoneMarker)
            /\ probe' = Logged("chunk", lineNo)
            /\ pc' = "at_done_yield"
       ELSE pc' = "finally" /\ UNCHANGED <<out, probe>>
    /\ UNCHANGED <<store, nextChat, req, chat_id, parent_id, created, lineNo,
                   st, ns, resp>>
    /\ OrderFrame

\* the client goes away while generate() is suspended at a yield:
\* GeneratorExit is raised there and the finally block runs
OrderDisconnect ==
    /\ pc \in {"at_answer_yield", "at_final_yield", "at_done_yield", "at_error_yield"}
    /\ pc' = "finally"
    /\ UNCHANGED <<store, nextChat, req, chat_id, parent_id, created, lineNo,
                   st, ns, out, resp, probe>>
    /\ OrderFrame

\* the finally block of generate() (lines 1030-1046); when session.post had
\* raised, assistant_content was never assigned and the block raises
\* UnboundLocalError
OrderFinally ==
    /\ pc = "finally"
    /\ IF ~st.bound
       THEN pc' = "crashed" /\ UNCHANGED <<store, probe>>
       ELSE /\ store' = PersistAfterChat(store, chat_id, st.current_response_id,
                                         st.assistant_content)
            /\ probe' = IF st.assistant_content # <<>> /\ st.current_response_id # "none"
                        THEN Logged("upsert", 0) ELSE probe
            /\ pc' = "done"
    /\ UNCHANGED <<nextChat, req, chat_id, parent_id, created, lineNo,
                   st, ns, out, resp>>
    /\ OrderFrame

\* the non-streaming form after its loop: the session update (lines
\* 1107-1122), then the response (lines 1125-1145)
OrderAfterLoop ==
    /\ pc = "after_loop"
    /\ store' = PersistAfterChat(store, chat_id, ns.current_response_id,
                                 ns.response_text)
    /\ probe' = [probe EXCEPT !.log =
                    @ \o (IF ns.response_text # <<>> /\ ns.current_response_id # "none"
                          THEN <<Step("upsert", 0)>> ELSE <<>>)
                      \o <<Step("response", 0)>>]
    /\ resp' = BuildResponse(ns)
    /\ pc' = "done"
    /\ UNCHANGED <<nextChat, req, chat_id, parent_id, created, lineNo, st, ns, out>>
    /\ OrderFrame

NextOrder ==
    \/ \E m \in Requests(store) : OrderResolve(m)
    \/ \E ok \in BOOLEAN : OrderCreate(ok)
    \/ \E ok \in BOOLEAN : OrderPost(ok)
    \/ \E line \in OrderLines : OrderLine(line)
    \/ OrderSentinel
    \/ OrderCloses
    \/ OrderTransportError
    \/ OrderResume
    \/ OrderDisconnect
    \/ OrderFinally
    \/ OrderAfterLoop

SpecOrder == InitOrder /\ [][NextOrder]_vars


\* positions of the steps of kind e in the log
StepsOf(e) == { i \in 1..Len(probe.log) : probe.log[i].e = e }

\* ---------------------------------------------------------------------- C31
\* C31: within one exchange the continuity resolution, and the creation of
\* the thread when there is one, come before the upstream call; every chunk
\* is emitted after the line that caused it and before the next line is
\* read, so chunks leave in arrival order; and the session is stored only
\* after the last chunk of the exchange: no chunk, line or call follows it.
C31_StepOrder ==
    probe.op = "order" =>
        LET L == probe.log
        IN  /\ \A j \in StepsOf("post") :
                   /\ \E i \in StepsOf("resolve") : i < j
                   /\ created => \E i \in StepsOf("create") : i < j
                   /\ \A i \in StepsOf("resolve") \cup StepsOf("create") : i < j
            /\ \A i \in StepsOf("create") : \E k \in StepsOf("resolve") : k < i
            /\ \A j \in StepsOf("line") : \E i \in StepsOf("post") : i < j
            /\ \A i, j \in StepsOf("line") : i < j => L[i].n < L[j].n
            /\ \A j \in StepsOf("chunk") :
                   /\ \E i \in StepsOf("post") : i < j
                   /\ \A i \in StepsOf("line") :
                          (i < j) <=> (L[i].n <= L[j].n)
            /\ \A i, j \in StepsOf("chunk") : i < j => L[i].n <= L[j].n
            /\ Cardinality(StepsOf("chunk")) = Len(out)
            /\ Cardinality(StepsOf("upsert")) <= 1
            /\ (store # store0) => StepsOf("upsert") # {}
            /\ \A i \in StepsOf("upsert") :
                   \A j \in 1..Len(L) : j > i => L[j].e = "response"

\* a streaming exchange on a new thread emitted an answer chunk, the final
\* chunk and the end marker, and then stored the session
C31_Witness ==
    /\ probe.op = "order"
    /\ pc = "done"
    /\ req.stream
    /\ created
    /\ Len(out) = 3
    /\ out[3] = DoneMarker
    /\ store # store0
    /\ probe.log[Len(probe.log)].e = "upsert"


\* ===================================================== malformed events
\* An eighth specification: the translators of both modes read a body in
\* which malformed lines occur, while probe holds the locals, the chunks and
\* the store of the same translators reading the same body with the
\* malformed lines left out.  probe.skipped lists the line numbers at which
\* a malformed line arrived.
Malformed(line) == line.k = "bad"

InitSkip ==
    /\ store = <<>>
    /\ nextChat = 1
    /\ store0 = store
    /\ user_ok = TRUE
    /\ up = NoUpload
    /\ fault = "none"
    /\ arrived = ArrivedInit
    /\ nReq = 1
    /\ req = [hasAssistant |-> FALSE, assistant |-> <<>>, stream |-> TRUE]
    /\ pc = "streaming"
    /\ chat_id = 1
    /\ parent_id = "none"
    /\ created = TRUE
    /\ upstream_open = TRUE
    /\ lineNo = 0
    /\ st = [StInit EXCEPT !.bound = TRUE]
    /\ ns = NsInit
    /\ out = <<>>
    /\ atYield = FALSE
    /\ resp = NoResp
    /\ probe = [op |-> "skip", st |-> [StInit EXCEPT !.bound = TRUE], ns |-> NsInit,
                out |-> <<>>, store |-> <<>>, skipped |-> <<>>]

SkipFrame ==
    UNCHANGED <<nextChat, nReq, req, chat_id, parent_id, created, atYield,
                resp, store0, arrived, user_ok, fault, up>>

\* variant: a malformed line ends the turn's buffers
StreamStep_MalformedResets(s, line) ==
    IF Malformed(line)
    THEN [st |-> [s EXCEPT !.reasoning_text = <<>>, !.assistant_content = <<>>],
          chunks |-> <<>>]
    ELSE StreamStep(s, line)

\* one pass of the loops over iter_lines (generate(), lines 942-1014;
\* non-streaming, lines 1061-1105)
ReadLine(s, line) == StreamStep(s, line)

SkipLine(line) ==
    /\ pc = "streaming"
    /\ lineNo < MaxLines
    /\ lineNo' = lineNo + 1
    /\ st' = ReadLine(st, line).st
    /\ out' = out \o ReadLine(st, line).chunks
    /\ ns' = NonStreamStep(ns, line)
    /\ probe' =
         IF Malformed(line)
         THEN [probe EXCEPT !.skipped = Append(@, lineNo + 1)]
         ELSE [probe EXCEPT !.st = StreamStep(@, line).st,
                            !.out = @ \o StreamStep(probe.st, line).chunks,
                            !.ns = NonStreamStep(@, line)]
    /\ UNCHANGED <<store, pc, upstream_open>>
    /\ SkipFrame

\* the sentinel: final chunk, end marker and the finally block
SkipSentinel ==
    /\ pc = "streaming"
    /\ pc' = "done"
    /\ upstream_open' = FALSE
    /\ out' = out \o <<FinalChunk(st.finish_reason), DoneMarker>>
    /\ store' = PersistAfterChat(store, chat_id, st.current_response_id,
                                 st.assistant_content)
    /\ probe' = [probe EXCEPT
                   !.out = @ \o <<FinalChunk(probe.st.finish_reason), DoneMarker>>,
                   !.store = PersistAfterChat(@, chat_id, probe.st.current_response_id,
                                              probe.st.assistant_content)]
    /\ UNCHANGED <<lineNo, st, ns>>
    /\ SkipFrame

NextSkip ==
    \/ \E line \in Lines : SkipLine(line)
    \/ SkipSentinel

SpecSkip == InitSkip /\ [][NextSkip]_vars

\* ---------------------------------------------------------------------- C32
\* C32: a malformed upstream event emits no chunk and leaves the reasoning
\* buffer, the answer buffer, the captured finish_reason and the captured
\* turn id as they were, in both modes, and the events after it are
\* processed as if it had not arrived: locals, chunks and stored session
\* equal those of the same body without the malformed events.
C32_MalformedSkipped ==
    probe.op = "skip" =>
        /\ st = probe.st
        /\ ns = probe.ns
        /\ out = probe.out
        /\ store = probe.store

\* a malformed line arrived between a think delta and an answer delta, and
\* the answer chunk still carries the reasoning text
C32_Witness ==
    /\ probe.op = "skip"
    /\ probe.skipped = <<2>>
    /\ lineNo = 3
    /\ Len(out) = 1
    /\ out[1].hasReasoning
    /\ st.assistant_content # <<>>


\* ---------------------------------------------------------------------- C33
\* C33 as stated: in non-streaming mode a transport failure that comes
\* after answer deltas were accumulated (and a turn id was announced)
\* leaves the store holding the accumulated answer text for the thread of
\* the exchange.
C33_NonStreamingPersistsOnError ==
    (/\ pc = "error"
     /\ ~req.stream
     /\ ns.response_text # <<>>
     /\ ns.current_response_id # "none")
        => \E i \in 1..Len(store) :
               /\ store[i].chat_id = chat_id
               /\ store[i].current_response_id = ns.current_response_id
               /\ store[i].last_assistant_content = remove_tool(ns.response_text)


\* ================================================= concurrent exchanges
\* A ninth specification: two exchanges run concurrently on one session
\* table, and the delete route runs beside them.  Every method of
\* ChatHistoryManager opens its own connection and executes one SQL
\* statement, which sqlite applies as one transaction: a method is one
\* step, and the exchanges interleave between the steps.
\*   probe.w[e]   position of exchange e ("idle", "running"), the thread it
\*                works on and what its lookup returned
\*   probe.last   the store operation of the last step and its arguments
Exchanges == {1, 2}

\* an exchange writes created_at = updated_at = the current time and the
\* chat_type "t2t" (update_session_after_chat, lines 784-794)
ConcArgs ==
    [title : Titles, time : {1},
     current_response_id : ResponseIds, last_assistant_content : Contents]

IdleExchange == [pc |-> "idle", chat_id |-> 0, found |-> NoSession]

InitConc ==
    /\ store = <<>>
    /\ nextChat = 0
    /\ store0 = store
    /\ user_ok = TRUE
    /\ up = NoUpload
    /\ ExchangeIdle
    /\ arrived = ArrivedInit
    /\ fault = "none"
    /\ probe = [op |-> "conc", w |-> [e \in Exchanges |-> IdleExchange],
                last |-> [op |-> "none"]]

ConcFrame ==
    UNCHANGED <<nextChat, nReq, req, pc, chat_id, parent_id, created,
                upstream_open, lineNo, st, ns, out, atYield, resp, store0,
                arrived, user_ok, fault, up>>

\* an exchange begins: find_matching_session reads the table; without a
\* match the exchange works on a thread of its own choice
ConcLookup(e, content, c) ==
    /\ probe.w[e].pc = "idle"
    /\ LET found == get_session_by_last_content(store, content)
       IN  probe' = [probe EXCEPT
                        !.w[e] = [pc |-> "running",
                                  chat_id |-> IF found # NoSession THEN found.chat_id ELSE c,
                                  found |-> found],
                        !.last = [op |-> "lookup", by |-> e, found |-> found]]
    /\ store' = store
    /\ ConcFrame

\* variant: the columns the upsert does not name first are kept from the
\* row the thread already has
update_session_row_Merge(rows, cid, title, created_at, updated_at, chat_type, rid, content) ==
    IF \E i \in 1..Len(rows) : rows[i].chat_id = cid
    THEN Append(DeleteRows(rows, cid),
                [chat_id |-> cid,
                 title |-> (CHOOSE r \in {rows[i] : i \in 1..Len(rows)} : r.chat_id = cid).title,
                 created_at |-> created_at, updated_at |-> updated_at,
                 chat_type |-> chat_type, current_response_id |-> rid,
                 last_assistant_content |-> remove_tool(content)])
    ELSE update_session_row(rows, cid, title, created_at, updated_at, chat_type, rid, content)

\* ChatHistoryManager.update_session as the exchanges call it
ConcWrite(rows, cid, title, created_at, updated_at, chat_type, rid, content) ==
    update_session_row(rows, cid, title, created_at, updated_at, chat_type, rid, content)

\* an exchange ends: update_session_after_chat upserts the session of its
\* thread
ConcUpsert(e, a) ==
    /\ probe.w[e].pc = "running"
    /\ store' = ConcWrite(store, probe.w[e].chat_id, a.title, a.time, a.time,
                          "t2t", a.current_response_id, a.last_assistant_content)
    /\ probe' = [probe EXCEPT
                    !.w[e] = IdleExchange,
                    !.last = [op |-> "upsert", by |-> e,
                              chat_id |-> probe.w[e].chat_id, args |-> a,
                              had |-> (\E i \in 1..Len(store) :
                                          store[i].chat_id = probe.w[e].chat_id)]]
    /\ ConcFrame

\* an exchange ends without a session update (empty answer or no turn id)
ConcEndsSilently(e) ==
    /\ probe.w[e].pc = "running"
    /\ store' = store
    /\ probe' = [probe EXCEPT !.w[e] = IdleExchange,
                              !.last = [op |-> "none"]]
    /\ ConcFrame

\* the delete route removes the session of a thread
ConcDelete(c) ==
    /\ store' = delete_session(store, c)
    /\ probe' = [probe EXCEPT !.last = [op |-> "delete", chat_id |-> c]]
    /\ ConcFrame

NextConc ==
    \/ \E e \in Exchanges, content \in Contents \cup {<<"*", "a">>}, c \in ChatIds :
           ConcLookup(e, content, c)
    \/ \E e \in Exchanges, a \in ConcArgs : ConcUpsert(e, a)
    \/ \E e \in Exchanges : ConcEndsSilently(e)
    \/ \E c \in ChatIds : ConcDelete(c)

SpecConc == InitConc /\ [][NextConc]_vars

\* ---------------------------------------------------------------------- C34
\* the set of rows of a table
RowSet(rows) == { rows[i] : i \in 1..Len(rows) }

\* the record an upsert stores for its arguments
RecordOf(cid, a) ==
    [chat_id |-> cid, title |-> a.title, created_at |-> a.time,
     updated_at |-> a.time, chat_type |-> "t2t",
     current_response_id |-> a.current_response_id,
     last_assistant_content |-> remove_tool(a.last_assistant_content)]

\* C34: under every interleaving of the exchanges and the deletions, the
\* table holds at most one row per thread; no step leaves a row in the
\* table that is neither a row the table held before nor the whole record
\* of the upsert of that step (so every row is the complete argument of one
\* upsert); and a lookup returns no session or the thread and turn id of
\* one row of the table.
C34_Step ==
    probe'.op = "conc" =>
        /\ \A c \in ChatIds : Len(RowsOf(store', c)) <= 1
        /\ \A r \in RowSet(store') :
               \/ r \in RowSet(store)
               \/ /\ probe'.last.op = "upsert"
                  /\ r = RecordOf(probe'.last.chat_id, probe'.last.args)
        /\ probe'.last.op = "upsert" =>
               RecordOf(probe'.last.chat_id, probe'.last.args) \in RowSet(store')
        /\ probe'.last.op = "lookup" =>
               \/ probe'.last.found = NoSession
               \/ \E r \in RowSet(store) :
                      /\ r.chat_id = probe'.last.found.chat_id
                      /\ r.current_response_id = probe'.last.found.current_response_id

C34_WholeRecords == [][C34_Step]_vars

\* while exchange 1 was still running on a thread it had found, exchange 2
\* replaced the row of that thread
C34_Witness ==
    /\ probe.op = "conc"
    /\ probe.w[1].pc = "running"
    /\ probe.w[1].found # NoSession
    /\ probe.last.op = "upsert"
    /\ probe.last.by = 2
    /\ probe.last.had
    /\ probe.last.chat_id = probe.w[1].chat_id
    /\ Len(store) = 2


\* ================================================== canonical query string
\* A tenth specification: generate_oss_v4_signature builds the canonical
\* query string of every query of up to MaxQueryLen characters.  A string
\* is a sequence of characters.
MaxQueryLen == 5

QueryAlphabet == {"a", "b", "=", "&"}

Queries == UNION { [1..n -> QueryAlphabet] : n \in 0..MaxQueryLen }

\* code point of a character
Ord(c) == CASE c = "&" -> 38 [] c = "=" -> 61 [] c = "a" -> 97 [] c = "b" -> 98

RECURSIVE StrLess(_, _)
\* x < y on Python strings: by code point, a proper prefix first
StrLess(x, y) ==
    IF y = <<>> THEN FALSE
    ELSE IF x = <<>> THEN TRUE
    ELSE IF x[1] # y[1] THEN Ord(x[1]) < Ord(y[1])
    ELSE StrLess(Tail(x), Tail(y))

RECURSIVE SplitOn(_, _)
\* s.split(sep) for a separator of one character
SplitOn(s, sep) ==
    LET i == FirstIndex(s, sep, 1)
    IN  IF i = 0 THEN <<s>>
        ELSE <<SubSeq(s, 1, i - 1)>> \o SplitOn(SubSeq(s, i + 1, Len(s)), sep)

RECURSIVE JoinWith(_, _)
\* sep.join(parts)
JoinWith(parts, sep) ==
    IF parts = <<>> THEN <<>>
    ELSE IF Len(parts) = 1 THEN parts[1]
    ELSE parts[1] \o <<sep>> \o JoinWith(Tail(parts), sep)

RECURSIVE InsertSorted(_, _)
\* x put into an ascending list, behind the elements not greater than it
InsertSorted(x, sorted) ==
    IF sorted = <<>> THEN <<x>>
    ELSE IF StrLess(x, sorted[1]) THEN <<x>> \o sorted
    ELSE <<sorted[1]>> \o InsertSorted(x, Tail(sorted))

RECURSIVE Sorted(_)
\* sorted(parts)
Sorted(parts) ==
    IF parts = <<>> THEN <<>>
    ELSE InsertSorted(parts[Len(parts)], Sorted(SubSeq(parts, 1, Len(parts) - 1)))

\* variant: a parameter is kept as it stands in the URL
query_part_Verbatim(param) == param

\* lines 1826-1833: one parameter of the query
query_part(param) ==
    LET i == FirstIndex(param, "=", 1)
    IN  IF i # 0
        THEN (IF SubSeq(param, i + 1, Len(param)) # <<>>
              THEN SubSeq(param, 1, i - 1) \o <<"=">> \o SubSeq(param, i + 1, Len(param))
              ELSE SubSeq(param, 1, i - 1))
        ELSE param

\* lines 1823-1837: query_parts before sorting
query_parts(query) ==
    LET params == SplitOn(query, "&")
    IN  [i \in 1..Len(params) |-> query_part(params[i])]

\* lines 1823-1837
canonical_querystring(query) ==
    IF query # <<>> THEN JoinWith(Sorted(query_parts(query)), "&") ELSE <<>>

InitSign ==
    /\ store = <<>>
    /\ nextChat = 0
    /\ store0 = store
    /\ user_ok = TRUE
    /\ up = NoUpload
    /\ ExchangeIdle
    /\ arrived = ArrivedInit
    /\ fault = "none"
    /\ \E q \in Queries :
           probe = [op |-> "sign", query |-> q, done |-> FALSE,
                    parts |-> <<>>, result |-> <<>>]

\* the signer is called with a URL of that query
Canonicalize ==
    /\ probe.op = "sign"
    /\ ~probe.done
    /\ probe' = [probe EXCEPT
                    !.done = TRUE,
                    !.parts = IF probe.query # <<>>
                              THEN Sorted(query_parts(probe.query)) ELSE <<>>,
                    !.result = canonical_querystring(probe.query)]
    /\ UNCHANGED <<store, nextChat, nReq, req, pc, chat_id, parent_id, created,
                   upstream_open, lineNo, st, ns, out, atYield, resp, store0,
                   arrived, user_ok, fault, up>>

NextSign == Canonicalize

SpecSign == InitSign /\ [][NextSign]_vars

\* ---------------------------------------------------------------------- C35
\* the parameters of a query: the pieces between the "&"
RECURSIVE ParamsOf(_)
ParamsOf(q) ==
    IF \A i \in 1..Len(q) : q[i] # "&" THEN <<q>>
    ELSE LET i == CHOOSE k \in 1..Len(q) :
                     q[k] = "&" /\ \A j \in 1..(k - 1) : q[j] # "&"
         IN  <<SubSeq(q, 1, i - 1)>> \o ParamsOf(SubSeq(q, i + 1, Len(q)))

\* key and value of a parameter: around its first "=", if it has one
HasEquals(p) == \E i \in 1..Len(p) : p[i] = "="
EqualsAt(p) == CHOOSE k \in 1..Len(p) : p[k] = "=" /\ \A j \in 1..(k - 1) : p[j] # "="
KeyOf(p) == IF HasEquals(p) THEN SubSeq(p, 1, EqualsAt(p) - 1) ELSE p
ValueOf(p) == IF HasEquals(p) THEN SubSeq(p, EqualsAt(p) + 1, Len(p)) ELSE <<>>

\* key=value for a non-empty value, the bare key otherwise
Rendered(p) ==
    IF ValueOf(p) # <<>> THEN KeyOf(p) \o <<"=">> \o ValueOf(p) ELSE KeyOf(p)

\* how often x occurs in a list
Count(list, x) == Cardinality({ i \in 1..Len(list) : list[i] = x })

\* C35: the canonical query string of a URL without a query is empty;
\* otherwise it is the renderings of the query's parameters (key=value for
\* a non-empty value, the bare key for no value or an empty one), each as
\* often as it occurs, in ascending order, joined by "&".
C35_CanonicalQuery ==
    (probe.op = "sign" /\ probe.done) =>
        IF probe.query = <<>> THEN probe.result = <<>>
        ELSE LET P == ParamsOf(probe.query)
                 R == probe.parts
             IN  /\ Len(R) = Len(P)
                 /\ \A i \in 1..Len(P) : Count(R, Rendered(P[i])) =
                        Cardinality({ j \in 1..Len(P) : Rendered(P[j]) = Rendered(P[i]) })
                 /\ \A i \in 1..(Len(R) - 1) : ~StrLess(R[i + 1], R[i])
                 /\ probe.result = JoinWith(R, "&")

\* the query "b=&a" became "a&b"
C35_Witness ==
    /\ probe.op = "sign"
    /\ probe.done
    /\ probe.query = <<"b", "=", "&", "a">>
    /\ probe.result = <<"a", "&", "b">>


\* ---------------------------------------------------------------------- C36
\* C36: when an exchange has stored a session, the row of its thread holds
\* the turn id of the most recent response.created event of that exchange,
\* and that id is a real one; an exchange whose most recent such event
\* announced no id, or that received no such event, leaves the store as it
\* was.
C36_TurnIdOfRecord ==
    /\ (pc \in {"done", "closed", "error", "cancelled"} /\ store # store0) =>
           /\ arrived.rid # "none"
           /\ \E i \in 1..Len(store) :
                  /\ store[i].chat_id = chat_id
                  /\ store[i].current_response_id = arrived.rid
           /\ \A i \in 1..Len(store) :
                  store[i].chat_id = chat_id =>
                      store[i].current_response_id \notin {"none", ""}
    /\ (pc \in {"streaming", "done", "closed", "error", "cancelled"}
        /\ arrived.rid = "none") => store = store0

\* the first exchange of a run read three lines, the turn id r2 was the
\* one announced last, and the stored session holds it
C36_Witness ==
    /\ pc = "done"
    /\ store # store0
    /\ arrived.rid = "r2"
    /\ lineNo = 3
    /\ nReq = 1
    /\ \E i \in 1..Len(store) :
           store[i].chat_id = chat_id /\ store[i].current_response_id = "r2"


\* ---------------------------------------------------------------------- C37
\* C37 as stated: in streaming mode, when the upstream call fails before
\* any event was processed, the stream is exactly the error chunk, the
\* generator then finishes without raising, and the store is unchanged.
C37_PostFailureEndsCleanly ==
    (req.stream /\ ~st.bound /\ out # <<>>) =>
        /\ out = <<ErrorChunk>>
        /\ store = store0
        /\ pc # "crashed"


\* ========================================================= deleting a chat
\* An eleventh specification: QwenClient.delete_chat on a table that holds
\* sessions of up to two threads.
\*   probe.outcome   what the upstream DELETE did
\*   probe.returned  what delete_chat returned
DeleteOutcomes ==
    { "success",          \* 2xx, JSON body with success true
      "success_false",    \* 2xx, JSON body with success false or absent
      "bad_json",         \* 2xx, body that is no JSON
      "http_error",       \* raise_for_status raises
      "transport_error" } \* session.delete raises

SessionRows(c) ==
    { [chat_id |-> c, chat_type |-> "t2t", current_response_id |-> r,
       last_assistant_content |-> x] : r \in ResponseIds, x \in {<<"a">>, <<"b">>} }

DeleteStores ==
    { <<>> }
    \cup { <<r>> : r \in SessionRows(1) \cup SessionRows(2) }
    \cup { <<r, s>> : r \in SessionRows(1), s \in SessionRows(2) }
    \cup { <<s, r>> : r \in SessionRows(1), s \in SessionRows(2) }

InitDelete ==
    /\ store \in DeleteStores
    /\ nextChat = 2
    /\ store0 = store
    /\ user_ok = TRUE
    /\ up = NoUpload
    /\ ExchangeIdle
    /\ arrived = ArrivedInit
    /\ fault = "none"
    /\ probe = [op |-> "delete_chat", chat_id |-> 0, outcome |-> "none",
                returned |-> FALSE]

\* variant: the local record is removed whatever the upstream answered
delete_chat_AlwaysLocal(rows, cid, outcome) ==
    [rows |-> delete_session(rows, cid), returned |-> (outcome = "success")]

\* QwenClient.delete_chat, lines 723-745: the table after the call and the
\* value returned
delete_chat(rows, cid, outcome) ==
    IF outcome = "success"
    THEN [rows |-> delete_session(rows, cid), returned |-> TRUE]
    ELSE [rows |-> rows, returned |-> FALSE]

DeleteChat(c, outcome) ==
    /\ probe.op = "delete_chat"
    /\ store' = delete_chat(store, c, outcome).rows
    /\ probe' = [op |-> "delete_chat", chat_id |-> c, outcome |-> outcome,
                 returned |-> delete_chat(store, c, outcome).returned]
    /\ UNCHANGED <<nextChat, nReq, req, pc, chat_id, parent_id, created,
                   upstream_open, lineNo, st, ns, out, atYield, resp, store0,
                   arrived, user_ok, fault, up>>

NextDelete == \E c \in ChatIds, outcome \in DeleteOutcomes : DeleteChat(c, outcome)

SpecDelete == InitDelete /\ [][NextDelete]_vars

\* ---------------------------------------------------------------------- C38
\* C38: delete_chat returns true exactly when the upstream deletion
\* reported success, and then the table has lost the row of that thread and
\* nothing else; when the upstream call failed, reported no success or
\* returned a body that is no JSON, delete_chat returns false and the table
\* is what it was.
C38_Step ==
    (probe'.op = "delete_chat" /\ probe'.outcome # "none") =>
        /\ probe'.returned <=> (probe'.outcome = "success")
        /\ IF probe'.outcome = "success"
           THEN /\ \A i \in 1..Len(store') : store'[i].chat_id # probe'.chat_id
                /\ store' = SelectSeq(store, LAMBDA r : r.chat_id # probe'.chat_id)
           ELSE store' = store

C38_LocalDeleteFollowsUpstream == [][C38_Step]_vars

\* the upstream answered a body that is no JSON: delete_chat returned false
\* and the session of the thread is still in the table
C38_Witness ==
    /\ probe.op = "delete_chat"
    /\ probe.outcome = "bad_json"
    /\ ~probe.returned
    /\ \E i \in 1..Len(store) : store[i].chat_id = probe.chat_id
    /\ Len(store) = 2


\* ============================================================ bearer check
\* A twelfth specification: verify_auth_token on every Authorization
\* header of up to MaxHeaderWords words and every list of valid tokens,
\* for the routes that depend on it.  A header is the sequence of the words
\* its single spaces separate; an empty word stands for two spaces in a
\* row, or for a space at either end.
MaxHeaderWords == 2

HeaderWords == {"Bearer", "bearer", "Basic", "t1", "t2", ""}

Headers == UNION { [1..n -> HeaderWords] : n \in 1..MaxHeaderWords }

NoHeader == <<"absent">>

\* lists VALID_TOKENS may hold
TokenLists == SUBSET {"t1", "t2", ""}

GuardedRoutes == {"chat_completions", "multimodal_chat_completions", "upload_file",
                  "upload_image_and_chat", "upload_video_and_chat"}

\* str.lower() on the words above
Lower(w) == IF w = "Bearer" THEN "bearer" ELSE IF w = "Basic" THEN "basic" ELSE w

\* variant: the scheme is compared as it stands
verify_auth_token_CaseSensitive(valid_tokens, authorization) ==
    IF valid_tokens = {} THEN [accepted |-> TRUE, status |-> 0]
    ELSE IF authorization = NoHeader \/ authorization = <<"">>
    THEN [accepted |-> FALSE, status |-> 401]
    ELSE IF authorization[1] # "Bearer"
    THEN [accepted |-> FALSE, status |-> 401]
    ELSE IF ~(Len(authorization) = 2 /\ authorization[2] \in valid_tokens)
            /\ ~(Len(authorization) = 1 /\ "" \in valid_tokens)
    THEN [accepted |-> FALSE, status |-> 403]
    ELSE [accepted |-> TRUE, status |-> 0]

\* verify_auth_token, lines 146-187: authorization.partition(" ") gives the
\* first word as the scheme and everything behind the first space as the
\* token (the empty string when there is no space)
verify_auth_token(valid_tokens, authorization) ==
    IF valid_tokens = {} THEN [accepted |-> TRUE, status |-> 0]
    ELSE IF authorization = NoHeader \/ authorization = <<"">>
    THEN [accepted |-> FALSE, status |-> 401]
    ELSE IF Lower(authorization[1]) # "bearer"
    THEN [accepted |-> FALSE, status |-> 401]
    ELSE IF ~(Len(authorization) = 2 /\ authorization[2] \in valid_tokens)
            /\ ~(Len(authorization) = 1 /\ "" \in valid_tokens)
    THEN [accepted |-> FALSE, status |-> 403]
    ELSE [accepted |-> TRUE, status |-> 0]

InitAuth ==
    /\ store = <<>>
    /\ nextChat = 0
    /\ store0 = store
    /\ user_ok = TRUE
    /\ up = NoUpload
    /\ ExchangeIdle
    /\ arrived = ArrivedInit
    /\ fault = "none"
    /\ \E route \in GuardedRoutes, valid \in TokenLists,
          header \in Headers \cup {NoHeader} :
           probe = [op |-> "auth", route |-> route, VALID_TOKENS |-> valid,
                    authorization |-> header, pc |-> "arrived",
                    status |-> 0, handler_ran |-> FALSE]

AuthFrame ==
    UNCHANGED <<store, nextChat, nReq, req, pc, chat_id, parent_id, created,
                upstream_open, lineNo, st, ns, out, atYield, resp, store0,
                arrived, user_ok, fault, up>>

\* the dependency of the route is resolved: the request is refused with the
\* status of the HTTPException, or goes on to the handler
ResolveDependency ==
    /\ probe.op = "auth"
    /\ probe.pc = "arrived"
    /\ LET v == verify_auth_token(probe.VALID_TOKENS, probe.authorization)
       IN  probe' = [probe EXCEPT
                        !.pc = IF v.accepted THEN "admitted" ELSE "refused",
                        !.status = v.status]
    /\ AuthFrame

\* the handler of the route runs
RunHandler ==
    /\ probe.op = "auth"
    /\ probe.pc = "admitted"
    /\ probe' = [probe EXCEPT !.pc = "handled", !.handler_ran = TRUE]
    /\ AuthFrame

NextAuth == ResolveDependency \/ RunHandler

SpecAuth == InitAuth /\ [][NextAuth]_vars

\* ---------------------------------------------------------------------- C39
\* the header names the scheme Bearer, in any case, and a token of the list
BearerOfList(header, valid) ==
    /\ header # NoHeader
    /\ header[1] \in {"Bearer", "bearer"}
    /\ \/ Len(header) = 2 /\ header[2] \in valid
       \/ Len(header) = 1 /\ "" \in valid

\* the header is missing or empty, or names another scheme
NoBearer(header) ==
    \/ header = NoHeader
    \/ header[1] \notin {"Bearer", "bearer"}

\* C39: with a non-empty list of valid tokens a request is admitted only if
\* its Authorization header names the scheme Bearer (in any case) and a
\* token of the list; a missing header or another scheme is refused with
\* 401 and an unknown token with 403, and the handler of a refused request
\* never runs; with an empty list every request is admitted.
C39_BearerCheck ==
    (probe.op = "auth" /\ probe.pc # "arrived") =>
        /\ probe.VALID_TOKENS = {} => probe.pc \in {"admitted", "handled"}
        /\ probe.VALID_TOKENS # {} =>
               /\ probe.pc \in {"admitted", "handled"}
                      <=> BearerOfList(probe.authorization, probe.VALID_TOKENS)
               /\ NoBearer(probe.authorization) =>
                      (probe.pc = "refused" /\ probe.status = 401)
               /\ (~NoBearer(probe.authorization)
                   /\ ~BearerOfList(probe.authorization, probe.VALID_TOKENS)) =>
                      (probe.pc = "refused" /\ probe.status = 403)
        /\ probe.handler_ran => probe.pc = "handled"
        /\ probe.pc = "refused" => ~probe.handler_ran

\* the handler of a route ran for the header "bearer t1" while t1 is one of
\* the valid tokens
C39_Witness ==
    /\ probe.op = "auth"
    /\ probe.handler_ran
    /\ probe.VALID_TOKENS = {"t1", "t2"}
    /\ probe.authorization = <<"bearer", "t1">>


\* ===================================================== sync from the cloud
\* A thirteenth specification: sync_history_from_cloud, which QwenClient
\* runs once while it is constructed, against an upstream that answers
\* every list request and every detail request in any way.
MaxPages == 2
MaxPageLen == 2

\* the threads the upstream may list, and the thread only the local table holds
SyncThreads == {1, 2}
LocalOnlyThread == 3

\* the pages of the list: 1..MaxPageLen thread entries, the same thread
\* possibly more than once
SyncPages == UNION { [1..n -> SyncThreads] : n \in 1..MaxPageLen }

ListOutcomes == {"page", "empty", "unsuccessful", "error"}
DetailOutcomes == {"ok", "error", "unsuccessful", "malformed"}

\* a row an earlier run left in the table
OldRow(c) ==
    [chat_id |-> c, title |-> "old", created_at |-> 1, updated_at |-> 1,
     chat_type |-> "t2t", current_response_id |-> "r0",
     last_assistant_content |-> <<"b">>]

SyncStores ==
    { <<>>, <<OldRow(1)>>, <<OldRow(LocalOnlyThread)>>,
      <<OldRow(1), OldRow(LocalOnlyThread)>>, <<OldRow(2), OldRow(1)>> }

\* the entry of thread c in a list page: title, created_at, updated_at, chat_type
ListEntry(c) ==
    [id |-> c, title |-> IF c = 1 THEN "t1" ELSE "t2", created_at |-> 1,
     updated_at |-> 2, chat_type |-> "t2t"]

InitSync ==
    /\ store \in SyncStores
    /\ nextChat = 0
    /\ store0 = store
    /\ user_ok = TRUE
    /\ up = NoUpload
    /\ ExchangeIdle
    /\ arrived = ArrivedInit
    /\ fault = "none"
    /\ probe = [op |-> "sync", pc |-> "start", page |-> 0, sessions |-> <<>>,
                last |-> "none", pages_seen |-> 0,
                fetched |-> [c \in SyncThreads |-> "none"],
                skipped |-> {}]

SyncFrame ==
    UNCHANGED <<nextChat, nReq, req, pc, chat_id, parent_id, created,
                upstream_open, lineNo, st, ns, out, atYield, resp, store0,
                arrived, user_ok, fault, up>>

\* line 620: the table is emptied, page = 1
SyncClear ==
    /\ probe.op = "sync"
    /\ probe.pc = "start"
    /\ store' = clear_all_sessions(store)
    /\ probe' = [probe EXCEPT !.pc = "listing", !.page = 1]
    /\ SyncFrame

\* lines 624-638: the list request of the current page.  A transport error,
\* an error status or a body that is no JSON raises into the outer except;
\* success false, no data or an empty data list leave the loop
SyncList(outcome, sessions) ==
    /\ probe.op = "sync"
    /\ probe.pc = "listing"
    /\ outcome = "page" => probe.page <= MaxPages
    /\ probe' = [probe EXCEPT
                    !.pc = CASE outcome = "page" -> "details"
                             [] outcome = "error" -> "stopped"
                             [] OTHER -> "done",
                    !.sessions = IF outcome = "page" THEN sessions ELSE <<>>,
                    !.pages_seen = IF outcome = "page" THEN @ + 1 ELSE @,
                    !.last = "list_" \o outcome]
    /\ UNCHANGED store
    /\ SyncFrame

\* variant: a failed detail request ends the whole sync
SyncDetail_AbortOnFailure(outcome, rid) ==
    /\ probe.op = "sync"
    /\ probe.pc = "details"
    /\ probe.sessions # <<>>
    /\ LET session == ListEntry(Head(probe.sessions))
           rest == Tail(probe.sessions)
       IN  /\ store' = IF outcome = "ok"
                       THEN update_session_row(store, session.id, session.title,
                                session.created_at, session.updated_at,
                                session.chat_type, rid, <<"a">>)
                       ELSE store
           /\ probe' = [probe EXCEPT
                           !.sessions = rest,
                           !.pc = IF outcome # "ok" THEN "stopped"
                                  ELSE IF rest = <<>> THEN "listing" ELSE "details",
                           !.page = IF rest = <<>> /\ outcome = "ok" THEN @ + 1 ELSE @,
                           !.fetched = IF outcome = "ok"
                                       THEN [@ EXCEPT ![session.id] = rid] ELSE @,
                           !.skipped = IF outcome = "ok" THEN @ ELSE @ \cup {session.id},
                           !.last = "detail_" \o outcome]
    /\ SyncFrame

\* lines 640-683: the detail request of the next entry of the page.  An
\* answer with success true is stored with update_session; a transport
\* error, an error status, success false or a body the extraction cannot
\* read skip the entry.  After the last entry of the page, page += 1
SyncDetail(outcome, rid) ==
    /\ probe.op = "sync"
    /\ probe.pc = "details"
    /\ probe.sessions # <<>>
    /\ LET session == ListEntry(Head(probe.sessions))
           rest == Tail(probe.sessions)
       IN  /\ store' = IF outcome = "ok"
                       THEN update_session_row(store, session.id, session.title,
                                session.created_at, session.updated_at,
                                session.chat_type, rid, <<"a">>)
                       ELSE store
           /\ probe' = [probe EXCEPT
                           !.sessions = rest,
                           !.pc = IF rest = <<>> THEN "listing" ELSE "details",
                           !.page = IF rest = <<>> THEN @ + 1 ELSE @,
                           !.fetched = IF outcome = "ok"
                                       THEN [@ EXCEPT ![session.id] = rid] ELSE @,
                           !.skipped = IF outcome = "ok" THEN @ ELSE @ \cup {session.id},
                           !.last = "detail_" \o outcome]
    /\ SyncFrame

\* line 641: an entry of the page without an id raises outside the inner
\* try and ends the sync through the outer except
SyncEntryWithoutId ==
    /\ probe.op = "sync"
    /\ probe.pc = "details"
    /\ probe.sessions # <<>>
    /\ probe' = [probe EXCEPT !.pc = "stopped", !.last = "list_malformed"]
    /\ UNCHANGED store
    /\ SyncFrame

NextSync ==
    \/ SyncClear
    \/ \E outcome \in ListOutcomes, sessions \in SyncPages : SyncList(outcome, sessions)
    \/ \E outcome \in DetailOutcomes, rid \in ResponseIds : SyncDetail(outcome, rid)
    \/ SyncEntryWithoutId

SpecSync == InitSync /\ [][NextSync]_vars

\* ---------------------------------------------------------------------- C40
\* the record of thread c whose last answered detail request named rid
SyncRecord(c, rid) ==
    [chat_id |-> c, title |-> IF c = 1 THEN "t1" ELSE "t2", created_at |-> 1,
     updated_at |-> 2, chat_type |-> "t2t", current_response_id |-> rid,
     last_assistant_content |-> <<"a">>]

StoredThreads == { store[i].chat_id : i \in 1..Len(store) }

\* C40: once the sync has emptied the table, the table holds exactly one
\* record per upstream thread whose detail request was answered with
\* success, and none of the records it held before; pages are requested
\* one after the other; a failed detail request leaves the sync running on
\* the rest of the page; an empty or unsuccessful page ends the sync, and
\* only a failed list request stops it early.
C40_SyncRebuilds ==
    (probe.op = "sync" /\ probe.pc # "start") =>
        /\ \A i, j \in 1..Len(store) :
               store[i].chat_id = store[j].chat_id => i = j
        /\ StoredThreads = { c \in SyncThreads : probe.fetched[c] # "none" }
        /\ \A i \in 1..Len(store) :
               store[i] = SyncRecord(store[i].chat_id, probe.fetched[store[i].chat_id])
        /\ \A k \in 1..Len(store0) : \A i \in 1..Len(store) : store[i] # store0[k]
        /\ probe.pc = "listing" => probe.page = probe.pages_seen + 1
        /\ probe.pc = "details" => probe.page = probe.pages_seen
        /\ probe.pc = "stopped" => probe.last \in {"list_error", "list_malformed"}
        /\ probe.pc = "done" => probe.last \in {"list_empty", "list_unsuccessful"}
        /\ probe.last \in {"detail_ok", "detail_error", "detail_unsuccessful",
                           "detail_malformed", "list_page"}
               => probe.pc \in {"listing", "details"}

\* the table held records of threads 1 and 3; the detail request of thread
\* 1 failed and that of thread 2 was answered, and the list request of the
\* second page failed: the table holds the record of thread 2 alone
C40_Witness ==
    /\ probe.op = "sync"
    /\ probe.pc = "stopped"
    /\ probe.last = "list_error"
    /\ probe.page = 2
    /\ store0 = <<OldRow(1), OldRow(LocalOnlyThread)>>
    /\ probe.skipped = {1}
    /\ StoredThreads = {2}

====
